---- MODULE Spec2Model ----
(***************************************************************************)
(* Model of the InforKretz scale console: the vendor-driver file exchange  *)
(* (GUI/jdg_driver.py), the protocol adapter's _send primitive             *)
(* (GUI/kretz_adapter.py) and the fleet workflows of the application shell *)
(* (GUI/GUI_MAIN.py, GUI/envios_balanzas.py).                              *)
(*                                                                         *)
(* Time is counted in ticks of 0.05 s (TicksPerSec ticks to the second), so*)
(* that the code's sleeps (0.05, 0.1, 0.15, 0.25, 0.3 s), its 1.1 s mtime  *)
(* push and the whole-second truncation int(ts) are all exact.             *)
(***************************************************************************)
EXTENDS Integers, Sequences, FiniteSets, TLC

\* ---------------------------------------------------------------- bounds
NThreads == 2
MaxInst == 3
MaxProc == 2
MaxExt == 2
MaxCalls == 2
MaxMtCalls == 3
MaxMtNow == 50
NEq == 2
MaxItems == 2
MaxName == 30
MaxPrice == 123456
MaxOps == 3
MaxFrames == 2
MaxRetries == 2
MaxDbaCalls == 5
MaxEdits == 2

\* ------------------------------------------------------ program constants
TicksPerSec == 20
Sleep005 == 1
Sleep01 == 2
Sleep015 == 3
Sleep025 == 5
Sleep03 == 6
MtimePush == 22
MinPollTicks == 40

Min(a, b) == IF a < b THEN a ELSE b
Max(a, b) == IF a > b THEN a ELSE b

\* int(ts): the whole-second value of a timestamp held in ticks
IntSec(ts) == ts \div TicksPerSec

\* ------------------------------------------------------------- the lines
\* A line of INFO.JDG / EXT.JDG is kept as its first character h, the
\* characters 3..6 (cmd) and its length len; cmd is meaningful from length 7.
Cmds == {"0002", "2003", "2005"}
MkLine(h, cmd, len) == [h |-> h, cmd |-> cmd, len |-> len]

\* KretzAdapter._mk_info_line: "C" + id(2) + cmd(4) + datos
MkInfoLine(cmd, datalen) == MkLine("C", cmd, 7 + datalen)

\* KretzAdapter._extract_cmds_from_info_lines, one line: does it carry a code
CarriesCmd(s) == s.h \in {"C", "S"} /\ s.len >= 7

\* Counter(_extract_cmds_from_info_lines(lines)): occurrences per code
CountCmds(lines) ==
    [k \in Cmds |-> Cardinality({i \in 1..Len(lines) :
                                   CarriesCmd(lines[i]) /\ lines[i].cmd = k})]

ZeroCount == [k \in Cmds |-> 0]

\* bytes of a file holding the lines, each CRLF-terminated
RECURSIVE FileSize(_)
FileSize(lines) ==
    IF lines = <<>> THEN 0
    ELSE Head(lines).len + 2 + FileSize(Tail(lines))

\* ------------------------------------------------------------ the domain
IPs == {"10.0.0.5", "10.0.0.6"}
Modes == {"exe_dir", "ip_subdirs"}
Keys == {"__single__"} \cup IPs
NoPeer == <<"none", 0>>
NoFile == <<"absent", 0>>
Threads == 1..NThreads
InstIds == 1..MaxInst
ProcIds == 1..MaxProc

\* the 2003 / 2005 / 0002 lines the adapter builds (19 and 135 data chars)
LineDep == MkInfoLine("2003", 19)
LinePlu == MkInfoLine("2005", 135)
LineWake == MkInfoLine("0002", 0)
\* what the vendor driver may append to EXT.JDG: acknowledgments in the
\* INFO shape, and a line that carries no code
AckLines == {MkLine("C", "2003", 9), MkLine("C", "2005", 9), MkLine("E", "2003", 9)}

VARIABLES
    mode,     \* JDataGatePool.workdir_mode
    by_key,   \* JDataGatePool.by_key: key -> instance id, 0 = no entry
    nInst,    \* instances constructed so far
    inst,     \* JDataGateInstance fields: key (workdir), proc, peer, lock
    alive,    \* driver processes that have not exited
    procDir,  \* working directory of each process
    fconf,    \* CONF.JDG per workdir: the language code, "" = no file
    fcom,     \* COM.JDG per workdir: the peer written, NoFile = no file
    finfo,    \* INFO.JDG per workdir: [exists, lines, mtime]
    fext,     \* EXT.JDG per workdir: [exists, lines]
    now,      \* time.time(), in ticks
    th,       \* per thread: the locals of its current _send call, and its
              \* history: trace (file and process actions done), events
              \* (on_progress calls), acks (payload of "acks"), w0 (the time
              \* the wait it is in began), started_n (the lines EXT.JDG held
              \* when the process was started) and gained (EXT.JDG held more
              \* when the growth wait that has just ended returned)
    comlog,   \* history: the last write of COM.JDG
    mt,       \* history: the last two send_info_lines calls
    equipos_ok, \* EnvioBalanzasService._equipos_ok
    wf,         \* the workflow being run: name, dialog answer, loop position
    sends,      \* history: what the invocation sent, in order
    probes,     \* history: the equipment the invocation pinged
    reports,    \* history: the (equipment, event) pairs reported to on_progress
    seen,       \* history: the equipment whose loop turn began
    failed,     \* history: the equipment whose processing failed
    flota,      \* repo.equipos as the shell reads it (the address of each
                \* equipment, 0 = not in the table), the addresses held by
                \* the Equipo objects of _equipos_ok, the edits made, and
                \* history: the last command sent to a tested equipment
    plu,        \* history: the 2005 records one adapter call put in its batch
    db,         \* the database: GRP_VENT, BALA_EQUIPOS, BALA_DPTOS
    repo,       \* RepoSybase: departamentos, equipos, and the last call
    jrepo,      \* Repo (abm_data.json): departamentos, and the last call
    tcp,        \* KretzTCP: the socket, and the send_many call in progress
    dba,        \* DBAService: its connection, and the calls made
    fn          \* the last call of a protocol helper: its inputs and results

drvVars == <<mode, by_key, nInst, inst, alive, procDir, fconf, fcom, finfo, fext,
             now, th, comlog>>
fleetVars == <<equipos_ok, wf, sends, probes, reports, seen, failed, flota>>
restVars == <<plu, db, repo, jrepo, tcp, dba, fn>>

\* a key that ignores workdir_mode
KeyOf_AlwaysIp(ip) == ip

\* JDataGatePool.get: the key of a peer's instance
KeyOf(ip) == IF mode = "exe_dir" THEN "__single__" ELSE ip

\* JDataGateInstance.is_running
IsRunning(i) == inst[i].proc # 0 /\ inst[i].proc \in alive

NoComLog == [key |-> "", changed |-> FALSE, running |-> FALSE, by |-> ""]
NoMt == [n |-> 0, at |-> 0, had |-> FALSE, before |-> 0, after |-> 0,
         prev_at |-> 0, prev_after |-> 0]
NoInst == [key |-> "", proc |-> 0, peer |-> NoPeer, lock |-> 0]
NoInfo == [exists |-> FALSE, lines |-> <<>>, mtime |-> 0]
NoExt == [exists |-> FALSE, lines |-> <<>>]
NoArg == [eq |-> NoPeer, lines |-> <<>>, wait |-> FALSE, retry |-> FALSE,
          timeout |-> 0, onp |-> FALSE]
IdleThread ==
    [pc |-> "idle", arg |-> NoArg, inst |-> 0, req |-> ZeroCount,
     have |-> ZeroCount, resp |-> <<>>, t0 |-> 0, t_end |-> 0, prev_size |-> 0,
     prev_mtime |-> 0, ok |-> FALSE, w0 |-> 0, trace |-> <<>>, events |-> <<>>,
     acks |-> [need |-> ZeroCount, got |-> ZeroCount, at |-> 0], calls |-> 0,
     started_n |-> 0, gained |-> FALSE]

\* The state a run starts from: a fresh pool (used = FALSE), or the state an
\* earlier _send to peer left: the instance under its key with its driver
\* process running, CONF/COM written, INFO.JDG holding the earlier batch with
\* modification time mtime, and EXT.JDG holding ext.
FreshAt(t) ==
    [used |-> FALSE, files |-> FALSE, peer |-> NoPeer, now |-> t, mtime |-> 0, ext |-> <<>>]
UsedAt(peer, t, m, ext) ==
    [used |-> TRUE, files |-> TRUE, peer |-> peer, now |-> t, mtime |-> m, ext |-> ext]
\* the state get(..., no_touch=True) alone left (leer_log_driver): the
\* instance under its key, no process, no file
BareAt(peer, t) ==
    [used |-> TRUE, files |-> FALSE, peer |-> peer, now |-> t, mtime |-> 0, ext |-> <<>>]

DrvInit(modes, priors) ==
    \E m \in modes, pr \in priors :
      LET k == IF m = "exe_dir" THEN "__single__" ELSE pr.peer[1] IN
      /\ mode = m
      /\ by_key = [x \in Keys |-> IF pr.used /\ x = k THEN 1 ELSE 0]
      /\ nInst = IF pr.used THEN 1 ELSE 0
      /\ inst = [i \in InstIds |->
                   IF pr.used /\ i = 1
                   THEN [NoInst EXCEPT !.key = k, !.proc = IF pr.files THEN 1 ELSE 0]
                   ELSE NoInst]
      /\ alive = IF pr.files THEN {1} ELSE {}
      /\ procDir = [p \in ProcIds |-> IF pr.files /\ p = 1 THEN k ELSE ""]
      /\ fconf = [x \in Keys |-> IF pr.files /\ x = k THEN "00" ELSE ""]
      /\ fcom = [x \in Keys |-> IF pr.files /\ x = k THEN pr.peer ELSE NoFile]
      /\ finfo = [x \in Keys |->
                    IF pr.files /\ x = k
                    THEN [exists |-> TRUE, lines |-> <<LineDep>>, mtime |-> pr.mtime]
                    ELSE NoInfo]
      /\ fext = [x \in Keys |->
                   IF pr.files /\ x = k THEN [exists |-> TRUE, lines |-> pr.ext]
                   ELSE NoExt]
      /\ now = pr.now
      /\ th = [t \in Threads |-> IdleThread]
      /\ comlog = NoComLog

\* ------------------------------------------------ JDataGateInstance steps
\* _stop: terminate() and wait(timeout=2.0); the handle is dropped either
\* way. "exited": the process is gone; "timeout": wait raised TimeoutExpired,
\* which is swallowed, and the process is still there.
StopOutcomes == {"exited", "timeout"}
AliveAfterStop(i, outcome) ==
    IF IsRunning(i) /\ outcome = "exited" THEN alive \ {inst[i].proc} ELSE alive
StopTicks(i, outcome) ==
    IF IsRunning(i) /\ outcome = "timeout" THEN 2 * TicksPerSec ELSE 0

\* Popen: a process id no live process and no handle holds
FreePids == {p \in ProcIds : p \notin alive /\ \A i \in InstIds : inst[i].proc # p}
NewPid == CHOOSE p \in FreePids : \A q \in FreePids : p <= q

SendInfoLines_NoPush(info, lines, ts) ==
    [exists |-> TRUE, lines |-> lines, mtime |-> ts]
SendInfoLines_PushOne(info, lines, ts) ==
    [exists |-> TRUE, lines |-> lines,
     mtime |-> IF info.exists /\ IntSec(ts) <= IntSec(info.mtime)
               THEN IntSec(info.mtime) * TicksPerSec + TicksPerSec
               ELSE ts]

\* send_info_lines: INFO.JDG after writing lines at clock time ts
SendInfoLines(info, lines, ts) ==
    [exists |-> TRUE, lines |-> lines,
     mtime |-> IF info.exists /\ IntSec(ts) <= IntSec(info.mtime)
               THEN IntSec(info.mtime) * TicksPerSec + MtimePush
               ELSE ts]

\* ensure_info: create INFO.JDG empty when it does not exist
EnsureInfo(info, ts) ==
    IF info.exists THEN info ELSE [exists |-> TRUE, lines |-> <<>>, mtime |-> ts]

\* ensure_ext_clear: EXT.JDG truncated or created, empty
ExtClear == [exists |-> TRUE, lines |-> <<>>]

\* write_com_tcp, as the history records it: whether the peer written
\* differs from the one the file held, and whether the process was running
ComLogOf(k, peer, running, by) ==
    [key |-> k, changed |-> fcom[k] # NoFile /\ fcom[k] # peer,
     running |-> running, by |-> by]

\* ------------------------------------------------------ KretzAdapter._send
Me(t) == th[t]
Set(t, r) == th' = [th EXCEPT ![t] = r]
Short(have, req) == \E k \in Cmds : have[k] < req[k]
\* _update_have: have restricted to the codes of the request
HaveOf(lines, req) ==
    [k \in Cmds |-> IF req[k] > 0 THEN Max(0, CountCmds(lines)[k] - 0) ELSE 0]
Tag(t, x) == Append(Me(t).trace, x)
Ev(t, x) == IF Me(t).arg.onp THEN Append(Me(t).events, x) ELSE Me(t).events

\* the call: the arguments of one _send
SendCall(t, args) ==
    /\ Me(t).pc = "idle"
    /\ Me(t).calls < MaxCalls
    /\ \E a \in args :
         Set(t, [IdleThread EXCEPT !.pc = "get", !.arg = a,
                                   !.calls = Me(t).calls + 1])
    /\ UNCHANGED <<restVars, mode, by_key, nInst, inst, alive, procDir, fconf, fcom, finfo,
                   fext, now, comlog,
                   mt, fleetVars>>

\* pool.get(..., no_touch=True), first half: inst = self.by_key.get(key)
SendGetLookup(t) ==
    /\ Me(t).pc = "get"
    /\ LET found == by_key[KeyOf(Me(t).arg.eq[1])] IN
         Set(t, [Me(t) EXCEPT !.inst = found,
                              !.pc = IF found = 0 THEN "create" ELSE "lock",
                              !.req = CountCmds(Me(t).arg.lines)])
    /\ UNCHANGED <<restVars, mode, by_key, nInst, inst, alive, procDir, fconf, fcom, finfo,
                   fext, now, comlog,
                   mt, fleetVars>>

\* pool.get, second half: a new JDataGateInstance is stored under the key
SendGetCreate(t) ==
    /\ Me(t).pc = "create"
    /\ nInst < MaxInst
    /\ LET k == KeyOf(Me(t).arg.eq[1]) IN
         /\ nInst' = nInst + 1
         /\ inst' = [inst EXCEPT ![nInst + 1] = [NoInst EXCEPT !.key = k]]
         /\ by_key' = [by_key EXCEPT ![k] = nInst + 1]
         /\ Set(t, [Me(t) EXCEPT !.inst = nInst + 1, !.pc = "lock"])
    /\ UNCHANGED <<restVars, mode, alive, procDir, fconf, fcom, finfo, fext, now, comlog,
                   mt, fleetVars>>

\* with inst.lock:
SendLock(t) ==
    /\ Me(t).pc = "lock"
    /\ inst[Me(t).inst].lock = 0
    /\ inst' = [inst EXCEPT ![Me(t).inst].lock = t]
    /\ Set(t, [Me(t) EXCEPT !.pc = "stop"])
    /\ UNCHANGED <<restVars, mode, by_key, nInst, alive, procDir, fconf, fcom, finfo, fext,
                   now, comlog,
                   mt, fleetVars>>

\* 0) inst._stop()
SendStop(t) ==
    /\ Me(t).pc = "stop"
    /\ \E o \in StopOutcomes :
         /\ alive' = AliveAfterStop(Me(t).inst, o)
         /\ now' = now + StopTicks(Me(t).inst, o)
    /\ inst' = [inst EXCEPT ![Me(t).inst].proc = 0]
    /\ Set(t, [Me(t) EXCEPT !.pc = "conf", !.trace = Tag(t, "stop")])
    /\ UNCHANGED <<restVars, mode, by_key, nInst, procDir, fconf, fcom, finfo, fext, comlog,
                   mt, fleetVars>>

SendConf_SkipsCom(t) ==
    /\ Me(t).pc = "conf"
    /\ fconf' = [fconf EXCEPT ![inst[Me(t).inst].key] = "00"]
    /\ Set(t, [Me(t) EXCEPT !.pc = "ext", !.trace = Tag(t, "conf")])
    /\ UNCHANGED <<restVars, mode, by_key, nInst, inst, alive, procDir, fcom, finfo, fext,
                   now, comlog,
                   mt, fleetVars>>

\* 1) inst.write_conf(eq.idioma)
SendConf(t) ==
    /\ Me(t).pc = "conf"
    /\ fconf' = [fconf EXCEPT ![inst[Me(t).inst].key] = "00"]
    /\ Set(t, [Me(t) EXCEPT !.pc = "com", !.trace = Tag(t, "conf")])
    /\ UNCHANGED <<restVars, mode, by_key, nInst, inst, alive, procDir, fcom, finfo, fext,
                   now, comlog,
                   mt, fleetVars>>

\* 1) inst.write_com_tcp(eq.ip, eq.puerto)
SendCom(t) ==
    /\ Me(t).pc = "com"
    /\ LET k == inst[Me(t).inst].key IN
         /\ fcom' = [fcom EXCEPT ![k] = Me(t).arg.eq]
         /\ comlog' = ComLogOf(k, Me(t).arg.eq, IsRunning(Me(t).inst), "_send")
    /\ Set(t, [Me(t) EXCEPT !.pc = "ext", !.trace = Tag(t, "com")])
    /\ UNCHANGED <<restVars, mode, by_key, nInst, inst, alive, procDir, fconf, finfo, fext, now,
                   mt, fleetVars>>

\* 2) ext_path = inst.ensure_ext_clear()
SendExtClear(t) ==
    /\ Me(t).pc = "ext"
    /\ fext' = [fext EXCEPT ![inst[Me(t).inst].key] = ExtClear]
    /\ Set(t, [Me(t) EXCEPT !.pc = "ensinfo", !.trace = Tag(t, "ext_clear")])
    /\ UNCHANGED <<restVars, mode, by_key, nInst, inst, alive, procDir, fconf, fcom, finfo,
                   now, comlog,
                   mt, fleetVars>>

\* 2) inst.ensure_info(); sleep(0.05)
SendEnsureInfo(t) ==
    /\ Me(t).pc = "ensinfo"
    /\ LET k == inst[Me(t).inst].key IN
         finfo' = [finfo EXCEPT ![k] = EnsureInfo(finfo[k], now)]
    /\ Set(t, [Me(t) EXCEPT !.pc = "mtread", !.trace = Tag(t, "ensure_info")])
    /\ now' = now + Sleep005
    /\ UNCHANGED <<restVars, mode, by_key, nInst, inst, alive, procDir, fconf, fcom, fext, comlog,
                   mt, fleetVars>>

\* 3) prev_info_mtime = (inst.workdir / "INFO.JDG").stat().st_mtime
SendMtimeRead(t) ==
    /\ Me(t).pc = "mtread"
    /\ Set(t, [Me(t) EXCEPT !.pc = "mtwait", !.w0 = now,
                            !.prev_mtime = finfo[inst[Me(t).inst].key].mtime])
    /\ UNCHANGED <<restVars, mode, by_key, nInst, inst, alive, procDir, fconf, fcom, finfo,
                   fext, now, comlog,
                   mt, fleetVars>>

\* 3) while int(time()) <= int(prev_info_mtime): sleep(0.05)
SendMtimeWait(t) ==
    /\ Me(t).pc = "mtwait"
    /\ IF IntSec(now) <= IntSec(Me(t).prev_mtime)
       THEN /\ now' = now + Sleep005
            /\ UNCHANGED th
       ELSE /\ Set(t, [Me(t) EXCEPT !.pc = "write"])
            /\ UNCHANGED now
    /\ UNCHANGED <<restVars, mode, by_key, nInst, inst, alive, procDir, fconf, fcom, finfo,
                   fext, comlog,
                   mt, fleetVars>>

\* 3) inst.send_info_lines(list(lines)); on_progress("info_sent")
SendWrite(t) ==
    /\ Me(t).pc = "write"
    /\ LET k == inst[Me(t).inst].key IN
         finfo' = [finfo EXCEPT ![k] = SendInfoLines(finfo[k], Me(t).arg.lines, now)]
    /\ now' = now + Sleep005
    /\ Set(t, [Me(t) EXCEPT !.pc = "start", !.trace = Tag(t, "info"),
                            !.events = Ev(t, "info_sent")])
    /\ UNCHANGED <<restVars, mode, by_key, nInst, inst, alive, procDir, fconf, fcom, fext, comlog,
                   mt, fleetVars>>

\* start(): Popen unless the handle's process is alive, then sleep(0.3)
StartedInst(i) == IF IsRunning(i) THEN inst[i] ELSE [inst[i] EXCEPT !.proc = NewPid]
StartTicks(i) == IF IsRunning(i) THEN 0 ELSE Sleep03

\* 4) inst.ensure_running(); sleep(0.25)
SendStart(t) ==
    /\ Me(t).pc = "start"
    /\ LET i == Me(t).inst
           k == inst[i].key IN
         /\ IsRunning(i) \/ FreePids # {}
         /\ inst' = [inst EXCEPT ![i] = StartedInst(i)]
         /\ alive' = alive \cup {StartedInst(i).proc}
         /\ procDir' = [procDir EXCEPT ![StartedInst(i).proc] = k]
         /\ now' = now + StartTicks(i) + Sleep025
         /\ Set(t, [Me(t) EXCEPT !.pc = "size", !.started_n = Len(fext[k].lines),
                                 !.trace = Tag(t, "start")])
    /\ UNCHANGED <<restVars, mode, by_key, nInst, fconf, fcom, finfo, fext, comlog,
                   mt, fleetVars>>

\* 5) prev_size = ext_path.stat().st_size if ext_path.exists() else 0
SizeRead(k) == IF fext[k].exists THEN FileSize(fext[k].lines) ELSE 0

SendSize(t) ==
    /\ Me(t).pc = "size"
    /\ Set(t, [Me(t) EXCEPT
                 !.pc = IF Me(t).arg.wait THEN "growth" ELSE "poll0",
                 !.prev_size = SizeRead(inst[Me(t).inst].key),
                 !.started_n = IF Me(t).arg.wait THEN Me(t).started_n ELSE 0,
                 !.t0 = now,
                 !.w0 = now])
    /\ UNCHANGED <<restVars, mode, by_key, nInst, inst, alive, procDir, fconf, fcom, finfo,
                   fext, now, comlog,
                   mt, fleetVars>>

\* wait_for_ext_growth(prev_size, timeout), one turn of its loop
ExtGrown(k, prev_size) == fext[k].exists /\ FileSize(fext[k].lines) > prev_size
OnceTag(t, x) ==
    IF Me(t).trace # <<>> /\ Me(t).trace[Len(Me(t).trace)] = x
    THEN Me(t).trace ELSE Tag(t, x)
WaitTag(t) == OnceTag(t, "wait")

\* 5) ok = inst.wait_for_ext_growth(prev_size, timeout); on_progress("ext_growth")
SendGrowth(t) ==
    /\ Me(t).pc = "growth"
    /\ LET k == inst[Me(t).inst].key IN
         IF now - Me(t).t0 <= Me(t).arg.timeout
         THEN IF ExtGrown(k, Me(t).prev_size)
              THEN /\ Set(t, [Me(t) EXCEPT !.pc = "poll0", !.ok = TRUE,
                                           !.started_n = 0,
                                           !.gained = Len(fext[k].lines) > Me(t).started_n,
                                           !.trace = WaitTag(t),
                                           !.events = Ev(t, "ext_growth")])
                   /\ UNCHANGED now
              ELSE /\ Set(t, [Me(t) EXCEPT !.trace = WaitTag(t)])
                   /\ now' = now + Sleep005
         ELSE /\ Set(t, [Me(t) EXCEPT !.pc = "poll0", !.ok = FALSE,
                                      !.started_n = 0,
                                      !.gained = Len(fext[k].lines) > Me(t).started_n,
                                      !.trace = WaitTag(t),
                                      !.events = Ev(t, "ext_growth")])
              /\ UNCHANGED now
    /\ UNCHANGED <<restVars, mode, by_key, nInst, inst, alive, procDir, fconf, fcom, finfo,
                   fext, comlog,
                   mt, fleetVars>>

\* 5) t_end = time() + max(timeout, 2.0); have = Counter(); _update_have()
SendPollStart(t) ==
    /\ Me(t).pc = "poll0"
    /\ LET lines == fext[inst[Me(t).inst].key].lines IN
         Set(t, [Me(t) EXCEPT !.pc = "poll", !.w0 = now, !.gained = FALSE,
                              !.t_end = now + Max(Me(t).arg.timeout, MinPollTicks),
                              !.resp = lines,
                              !.have = HaveOf(lines, Me(t).req),
                              !.trace = WaitTag(t)])
    /\ UNCHANGED <<restVars, mode, by_key, nInst, inst, alive, procDir, fconf, fcom, finfo,
                   fext, now, comlog,
                   mt, fleetVars>>

\* 5) while wait_for_ext and any(have < req) and time() < t_end:
\*        sleep(0.1); _update_have()
PollGoesOn_First(t) ==
    Me(t).arg.wait /\ Me(t).have["2003"] < Me(t).req["2003"] /\ now < Me(t).t_end
PollGoesOn_Late(t) ==
    Me(t).arg.wait /\ Short(Me(t).have, Me(t).req) /\ now < Me(t).t_end + TicksPerSec

PollGoesOn(t) ==
    Me(t).arg.wait /\ Short(Me(t).have, Me(t).req) /\ now < Me(t).t_end

SendPoll(t) ==
    /\ Me(t).pc = "poll"
    /\ IF PollGoesOn(t)
       THEN /\ now' = now + Sleep01
            /\ LET lines == fext[inst[Me(t).inst].key].lines IN
                 Set(t, [Me(t) EXCEPT !.resp = lines,
                                      !.have = HaveOf(lines, Me(t).req)])
       ELSE /\ Set(t, [Me(t) EXCEPT !.pc = "acks"])
            /\ UNCHANGED now
    /\ UNCHANGED <<restVars, mode, by_key, nInst, inst, alive, procDir, fconf, fcom, finfo,
                   fext, comlog,
                   mt, fleetVars>>

\* a retry test that does not ask for wait_for_ext
RetryWanted_NoWait(t) == Me(t).arg.retry /\ Short(Me(t).have, Me(t).req)
\* on_progress("acks", need = dict(req), got = dict(have)); 6) the retry test
RetryWanted(t) == Me(t).arg.retry /\ Me(t).arg.wait /\ Short(Me(t).have, Me(t).req)

SendAcks(t) ==
    /\ Me(t).pc = "acks"
    /\ Set(t, [Me(t) EXCEPT
                 !.pc = IF RetryWanted(t) THEN "retry1" ELSE "unlock",
                 !.events = Ev(t, "acks"),
                 !.acks = IF Me(t).arg.onp
                          THEN [need |-> Me(t).req, got |-> Me(t).have, at |-> now]
                          ELSE Me(t).acks])
    /\ UNCHANGED <<restVars, mode, by_key, nInst, inst, alive, procDir, fconf, fcom, finfo,
                   fext, now, comlog,
                   mt, fleetVars>>

\* 6) on_progress("retry"); inst.send_info_lines([wake]); sleep(0.15)
SendRetryWake(t) ==
    /\ Me(t).pc = "retry1"
    /\ LET k == inst[Me(t).inst].key IN
         finfo' = [finfo EXCEPT ![k] = SendInfoLines(finfo[k], <<LineWake>>, now)]
    /\ now' = now + Sleep005 + Sleep015
    /\ Set(t, [Me(t) EXCEPT !.pc = "retry2", !.trace = Tag(t, "info_wake"),
                            !.events = Ev(t, "retry")])
    /\ UNCHANGED <<restVars, mode, by_key, nInst, inst, alive, procDir, fconf, fcom, fext, comlog,
                   mt, fleetVars>>

\* 6) ext_path = inst.ensure_ext_clear(); prev_size = its size
SendRetryClear(t) ==
    /\ Me(t).pc = "retry2"
    /\ fext' = [fext EXCEPT ![inst[Me(t).inst].key] = ExtClear]
    /\ Set(t, [Me(t) EXCEPT !.pc = "retry3", !.prev_size = 0,
                            !.trace = Tag(t, "ext_clear_retry")])
    /\ UNCHANGED <<restVars, mode, by_key, nInst, inst, alive, procDir, fconf, fcom, finfo,
                   now, comlog,
                   mt, fleetVars>>

\* a resend that leaves the wake line in place
ResentLines_Wake(t) == <<LineWake>>
\* 6) list(lines): what the retry writes again
ResentLines(t) == Me(t).arg.lines

\* 6) inst.send_info_lines(list(lines))
SendRetryWrite(t) ==
    /\ Me(t).pc = "retry3"
    /\ LET k == inst[Me(t).inst].key IN
         finfo' = [finfo EXCEPT ![k] = SendInfoLines(finfo[k], ResentLines(t), now)]
    /\ now' = now + Sleep005
    /\ Set(t, [Me(t) EXCEPT !.pc = "retry4", !.t0 = now + Sleep005,
                            !.w0 = now + Sleep005,
                            !.trace = Tag(t, "info_retry")])
    /\ UNCHANGED <<restVars, mode, by_key, nInst, inst, alive, procDir, fconf, fcom, fext, comlog,
                   mt, fleetVars>>

\* 6) inst.wait_for_ext_growth(prev_size, timeout); _update_have();
\*    on_progress("acks_after_retry")
SendRetryWait(t) ==
    /\ Me(t).pc = "retry4"
    /\ LET k == inst[Me(t).inst].key
           lines == fext[k].lines IN
         IF now - Me(t).t0 <= Me(t).arg.timeout /\ ~ExtGrown(k, Me(t).prev_size)
         THEN /\ now' = now + Sleep005
              /\ Set(t, [Me(t) EXCEPT !.trace = OnceTag(t, "wait_retry")])
         ELSE /\ UNCHANGED now
              /\ Set(t, [Me(t) EXCEPT !.pc = "unlock", !.resp = lines,
                                      !.trace = OnceTag(t, "wait_retry"),
                                      !.have = HaveOf(lines, Me(t).req),
                                      !.events = Ev(t, "acks_after_retry")])
    /\ UNCHANGED <<restVars, mode, by_key, nInst, inst, alive, procDir, fconf, fcom, finfo,
                   fext, comlog,
                   mt, fleetVars>>

\* the end of "with inst.lock": the lock is released; return resp_lines
SendUnlock(t) ==
    /\ Me(t).pc = "unlock"
    /\ inst' = [inst EXCEPT ![Me(t).inst].lock = 0]
    /\ Set(t, [Me(t) EXCEPT !.pc = "done"])
    /\ UNCHANGED <<restVars, mode, by_key, nInst, alive, procDir, fconf, fcom, finfo, fext,
                   now, comlog,
                   mt, fleetVars>>

\* the caller goes on to its next call
SendReturn(t) ==
    /\ Me(t).pc = "done"
    /\ Me(t).calls < MaxCalls
    /\ Set(t, [Me(t) EXCEPT !.pc = "idle"])
    /\ UNCHANGED <<restVars, mode, by_key, nInst, inst, alive, procDir, fconf, fcom, finfo,
                   fext, now, comlog,
                   mt, fleetVars>>

\* ------------------------------------------------------ the vendor driver
\* a live driver process appends a line to the EXT.JDG of its directory
DriverAck ==
    \E p \in alive, l \in AckLines :
      /\ Len(fext[procDir[p]].lines) < MaxExt
      /\ fext' = [fext EXCEPT ![procDir[p]] =
                    [exists |-> TRUE, lines |-> Append(fext[procDir[p]].lines, l)]]
      /\ UNCHANGED <<restVars, mode, by_key, nInst, inst, alive, procDir, fconf, fcom, finfo,
                     now, th, comlog,
                   mt, fleetVars>>

\* a driver process exits (by itself, or a terminate() completing late)
DriverExit ==
    \E p \in alive :
      /\ alive' = alive \ {p}
      /\ UNCHANGED <<restVars, mode, by_key, nInst, inst, procDir, fconf, fcom, finfo, fext,
                     now, th, comlog,
                   mt, fleetVars>>

\* ------------------------------------- JDataGatePool.get, apply_peer
\* the file and process actions of one get without no_touch, in the order of
\* the code: a new instance; an existing one in exe_dir mode (stopped when
\* the peer changed, started at the end when not running); an existing one
\* in ip_subdirs mode (prepared and started when not running, then cleared
\* again)
\* a get that starts a new instance's process before EXT.JDG and INFO.JDG
\* are prepared
GetSteps_StartEarly(isNew, wasRunning, stops) ==
    IF isNew
    THEN <<"get", "conf", "com", "start", "ext_clear", "ensure_info">>
    ELSE IF mode = "exe_dir"
    THEN <<"get", "conf", "com">> \o (IF stops THEN <<"stop">> ELSE <<>>)
         \o <<"ext_clear", "ensure_info">>
         \o (IF stops \/ ~wasRunning THEN <<"start">> ELSE <<>>)
    ELSE <<"get", "conf", "com">>
         \o (IF ~wasRunning THEN <<"ext_clear", "ensure_info", "start">> ELSE <<>>)
         \o <<"ext_clear", "ensure_info">>
GetSteps(isNew, wasRunning, stops) ==
    IF isNew
    THEN <<"get", "conf", "com", "ext_clear", "ensure_info", "start">>
    ELSE IF mode = "exe_dir"
    THEN <<"get", "conf", "com">> \o (IF stops THEN <<"stop">> ELSE <<>>)
         \o <<"ext_clear", "ensure_info">>
         \o (IF stops \/ ~wasRunning THEN <<"start">> ELSE <<>>)
    ELSE <<"get", "conf", "com">>
         \o (IF ~wasRunning THEN <<"ext_clear", "ensure_info", "start">> ELSE <<>>)
         \o <<"ext_clear", "ensure_info">>

\* one action of get on the files and the process of its instance: s holds
\* the process handle, the live processes, the four files and the clock
GetStep(s, step, peer, o) ==
    LET running == s.proc # 0 /\ s.proc \in s.alive
    IN  CASE step = "conf" -> [s EXCEPT !.conf = "00"]
          [] step = "com" -> [s EXCEPT !.com = peer]
          [] step = "stop" ->
               [s EXCEPT !.proc = 0,
                         !.alive = IF running /\ o = "exited"
                                   THEN s.alive \ {s.proc} ELSE s.alive,
                         !.now = s.now + (IF running /\ o = "timeout"
                                          THEN 2 * TicksPerSec ELSE 0)]
          [] step = "ext_clear" -> [s EXCEPT !.ext = ExtClear]
          [] step = "ensure_info" -> [s EXCEPT !.info = EnsureInfo(s.info, s.now)]
          \* sleep(0.05), then ensure_running: start returns at once when
          \* the process runs, else Popen and sleep(0.3)
          [] step = "start" ->
               IF running THEN [s EXCEPT !.now = s.now + Sleep005]
               ELSE [s EXCEPT !.proc = NewPid, !.alive = s.alive \cup {NewPid},
                              !.now = s.now + Sleep005 + Sleep03]
          [] OTHER -> s

\* the actions of a get, one after another
RECURSIVE RunGet(_, _, _, _)
RunGet(s, steps, peer, o) ==
    IF steps = <<>> THEN s
    ELSE RunGet(GetStep(s, Head(steps), peer, o), Tail(steps), peer, o)

\* pool.get(ip, puerto) with no_touch = False, the whole call
PoolGet(t, peers) ==
    /\ Me(t).pc = "idle"
    /\ Me(t).calls < MaxCalls
    /\ \E peer \in peers, o \in StopOutcomes :
         LET k == KeyOf(peer[1])
             found == by_key[k]
             isNew == found = 0
             i == IF isNew THEN nInst + 1 ELSE found
             wasRunning == ~isNew /\ IsRunning(i)
             \* exe_dir, existing instance: if the peer changed, inst._stop()
             stops == ~isNew /\ mode = "exe_dir" /\ peer # inst[i].peer
             steps == GetSteps(isNew, wasRunning, stops)
             s0 == [proc |-> IF isNew THEN 0 ELSE inst[i].proc, alive |-> alive,
                    conf |-> fconf[k], com |-> fcom[k], ext |-> fext[k],
                    info |-> finfo[k], now |-> now]
             s1 == RunGet(s0, steps, peer, o)
         IN  /\ isNew => nInst < MaxInst
             /\ (\E n \in 1..Len(steps) : steps[n] = "start") => FreePids # {}
             /\ nInst' = IF isNew THEN nInst + 1 ELSE nInst
             /\ by_key' = [by_key EXCEPT ![k] = i]
             /\ inst' = [inst EXCEPT ![i] =
                           [key |-> k,
                            proc |-> s1.proc,
                            peer |-> IF isNew /\ mode = "ip_subdirs" THEN NoPeer ELSE peer,
                            lock |-> inst[i].lock]]
             /\ alive' = s1.alive
             /\ procDir' = IF s1.proc # 0 /\ s1.proc # s0.proc
                           THEN [procDir EXCEPT ![s1.proc] = k] ELSE procDir
             /\ fconf' = [fconf EXCEPT ![k] = s1.conf]
             /\ fcom' = [fcom EXCEPT ![k] = s1.com]
             /\ comlog' = ComLogOf(k, peer, wasRunning, "get")
             /\ fext' = [fext EXCEPT ![k] = s1.ext]
             /\ finfo' = [finfo EXCEPT ![k] = s1.info]
             /\ now' = s1.now
             \* return inst: the caller holds the instance it asked for
             /\ Set(t, [Me(t) EXCEPT !.calls = Me(t).calls + 1, !.inst = i,
                                     !.arg = [NoArg EXCEPT !.eq = peer],
                                     !.trace = steps])
    /\ UNCHANGED <<restVars, mode, mt, fleetVars>>

\* get: "if not no_touch" guards every write and every start and stop
touches_always(no_touch) == TRUE
touches(no_touch) == ~no_touch

\* KretzAdapter.leer_log_driver, first half: pool.get(..., no_touch=True),
\* the whole call.  What "if not no_touch" guards is the part PoolGet models;
\* of it the four files are kept here, under touches.
LeerLogGet(t, peers) ==
    /\ Me(t).pc = "idle"
    /\ Me(t).calls < MaxCalls
    /\ \E peer \in peers :
         LET k == KeyOf(peer[1])
             found == by_key[k]
             isNew == found = 0
             i == IF isNew THEN nInst + 1 ELSE found
             touch == touches(TRUE)
         IN  /\ isNew => nInst < MaxInst
             /\ nInst' = IF isNew THEN nInst + 1 ELSE nInst
             /\ by_key' = [by_key EXCEPT ![k] = i]
             /\ inst' = IF isNew THEN [inst EXCEPT ![i] = [NoInst EXCEPT !.key = k]]
                        ELSE inst
             /\ fconf' = IF touch THEN [fconf EXCEPT ![k] = "00"] ELSE fconf
             /\ fcom' = IF touch THEN [fcom EXCEPT ![k] = peer] ELSE fcom
             /\ fext' = IF touch THEN [fext EXCEPT ![k] = ExtClear] ELSE fext
             /\ finfo' = IF touch THEN [finfo EXCEPT ![k] = EnsureInfo(finfo[k], now)]
                         ELSE finfo
             /\ Set(t, [Me(t) EXCEPT !.pc = "log", !.calls = Me(t).calls + 1,
                                     !.inst = i, !.arg = [NoArg EXCEPT !.eq = peer]])
    /\ UNCHANGED <<restVars, mode, alive, procDir, now, comlog, mt, fleetVars>>

\* leer_log_driver, second half: inst.read_driver_log_tail() reads the log
\* file of the working directory, if there is one, and returns its last lines
LeerLogRead(t) ==
    /\ Me(t).pc = "log"
    /\ Set(t, [Me(t) EXCEPT !.pc = "idle"])
    /\ UNCHANGED <<restVars, mode, by_key, nInst, inst, alive, procDir, fconf, fcom, finfo,
                   fext, now, comlog, mt, fleetVars>>

\* an apply_peer that takes every peer for a new one
PeerChanged_Always(i, peer) == TRUE
\* changed = (ip != self._peer_ip) or (puerto != self._peer_port)
PeerChanged(i, peer) == peer # inst[i].peer

\* inst.apply_peer(ip, puerto), the whole call: COM.JDG is written, then the
\* process is stopped if the peer differs from the cached one
ApplyPeer(t, peers) ==
    /\ Me(t).pc = "idle"
    /\ Me(t).calls < MaxCalls
    /\ \E i \in 1..nInst, peer \in peers, o \in StopOutcomes :
         LET k == inst[i].key
             changed == PeerChanged(i, peer)
         IN  /\ fcom' = [fcom EXCEPT ![k] = peer]
             /\ comlog' = ComLogOf(k, peer, IsRunning(i), "apply_peer")
             /\ alive' = IF changed THEN AliveAfterStop(i, o) ELSE alive
             /\ now' = now + (IF changed THEN StopTicks(i, o) ELSE 0)
             /\ inst' = IF changed
                        THEN [inst EXCEPT ![i].proc = 0, ![i].peer = peer]
                        ELSE inst
             \* the call the caller made: on which instance, with which peer
             /\ Set(t, [Me(t) EXCEPT !.calls = Me(t).calls + 1, !.inst = i,
                                     !.arg = [NoArg EXCEPT !.eq = peer],
                                     !.trace = <<"apply_peer">>])
    /\ UNCHANGED <<restVars, mode, by_key, nInst, procDir, fconf, finfo, fext, mt, fleetVars>>

\* ------------------------------------ send_info_lines called on its own
\* inst.send_info_lines(lines) on the first instance, the whole call with its
\* closing sleep(0.05)
InfoWrite ==
    /\ mt.n < MaxMtCalls
    /\ now < MaxMtNow
    /\ nInst >= 1
    /\ \E lines \in {<<LineDep>>, <<LineWake>>} :
         LET k == inst[1].key
             after == SendInfoLines(finfo[k], lines, now)
         IN  /\ finfo' = [finfo EXCEPT ![k] = after]
             /\ mt' = [n |-> mt.n + 1, at |-> now, had |-> finfo[k].exists,
                       before |-> finfo[k].mtime, after |-> after.mtime,
                       prev_at |-> mt.at, prev_after |-> mt.after]
    /\ now' = now + Sleep005
    /\ UNCHANGED <<restVars, mode, by_key, nInst, inst, alive, procDir, fconf, fcom, fext, th,
                   comlog, fleetVars>>

\* the wall clock between two calls
Tick ==
    /\ \E d \in {1, 7, TicksPerSec} :
         /\ now + d <= MaxMtNow
         /\ now' = now + d
    /\ UNCHANGED <<restVars, mode, by_key, nInst, inst, alive, procDir, fconf, fcom, finfo,
                   fext, th, comlog, mt, fleetVars>>

\* ------------------------------------------- the fleet-wide workflows
Eqs == 1..NEq
\* repo.equipos, in order
AllEquipos == [e \in Eqs |-> e]
RECURSIVE SubSeqs(_)
SubSeqs(q) ==
    IF q = <<>> THEN {<<>>}
    ELSE LET rest == SubSeqs(Tail(q)) IN rest \cup {<<Head(q)>> \o r : r \in rest}

\* what an equipment has: its departments, and its article rows, each
\* yielding a valid 2005 data field (TRUE) or skipped by the builder (FALSE)
DataChoices ==
    {[deptos |-> 0, rows |-> <<>>], [deptos |-> 1, rows |-> <<>>],
     [deptos |-> 1, rows |-> <<TRUE>>], [deptos |-> 2, rows |-> <<FALSE, TRUE>>]}

\* f"{int(x):02d}" and str(int(x))[:1], as digit sequences
Pad2(n) == IF n < 10 THEN <<0, n>> ELSE <<(n \div 10) % 10, n % 10>>
RECURSIVE FirstDigit(_)
FirstDigit(n) == IF n < 10 THEN n ELSE FirstDigit(n \div 10)
Bit(b) == IF b THEN 1 ELSE 0

\* _mk_info_line: the command and the data of an INFO.JDG line
InfoLine(cmd, data) == [cmd |-> cmd, data |-> data]

\* (inicio_pesable, incluir_peso_en_cb, inicio_no_pesable, incluir_unidades_en_cb, formato)
configurar_codbarra_1070(ini_pes, peso_en_cb, ini_no_pes, unid_en_cb, formato) ==
    InfoLine("1070", Pad2(ini_pes) \o <<Bit(peso_en_cb)>>
                     \o Pad2(ini_no_pes) \o <<Bit(unid_en_cb)>>
                     \o <<formato>>)
configurar_moneda_2026(moneda, dec_precio, dec_peso) ==
    InfoLine("2026", Pad2(moneda) \o <<FirstDigit(dec_precio), FirstDigit(dec_peso)>>)
seleccionar_moneda_1010(moneda) == InfoLine("1010", Pad2(moneda))

DeptoLines(n) == [i \in 1..n |-> InfoLine("2003", <<>>)]
RECURSIVE PluLines(_)
PluLines(rows) ==
    IF rows = <<>> THEN <<>>
    ELSE (IF Head(rows) THEN <<InfoLine("2005", <<>>)>> ELSE <<>>) \o PluLines(Tail(rows))

enviar_dptos_y_articulos_PlusFirst(d) == PluLines(d.rows) \o DeptoLines(d.deptos)
\* KretzAdapter.enviar_dptos_y_articulos: the lines of its one batch
enviar_dptos_y_articulos(d) == DeptoLines(d.deptos) \o PluLines(d.rows)

\* the workflows: of the shell over repo.equipos, of the shell over the
\* equipment that answered the connectivity test, and of the service
ShellFlows == {"enviar_departamentos_balanzas", "enviar_articulos_balanzas",
               "enviar_dptos_y_articulos_balanzas"}
WipeFlows == {"ui_vaciar_dptos", "ui_vaciar_plus"}
AltaFlows == {"ui_alta_depto", "ui_alta_familia", "ui_alta_plu"}
SvcFlows == {"svc_enviar_departamentos", "svc_enviar_articulos"}
FlowCmd(name) ==
    CASE name = "ui_vaciar_dptos" -> "4003"
      [] name = "ui_vaciar_plus" -> "4005"
      [] name = "ui_alta_depto" -> "2003"
      [] name = "ui_alta_familia" -> "2004"
      [] name = "ui_alta_plu" -> "2005"

IdleWf == [name |-> "", state |-> "idle", answer |-> FALSE, list |-> <<>>, i |-> 0]

\* the (ip, puerto) values an equipment can be given
Addrs == {1, 2}
NoTo == [eq |-> 0, addr |-> 0, cur |-> 0]
Flota0 == [equipos |-> [e \in Eqs |-> 1], tested |-> [e \in Eqs |-> 0],
           edits |-> 0, to |-> NoTo]
\* descubrir_equipos: an Equipo for every entry of repo.equipos, in order
DescubrirEquipos == SelectSeq(AllEquipos, LAMBDA e : flota.equipos[e] # 0)
\* testear_conexiones: each Equipo appended to _equipos_ok holds the ip and
\* puerto repo.equipos gave it
TestedAs(ok) ==
    [e \in Eqs |-> IF \E i \in 1..Len(ok) : ok[i] = e THEN flota.equipos[e] ELSE 0]

FleetInit ==
    /\ equipos_ok \in SubSeqs(AllEquipos)
    /\ flota = [Flota0 EXCEPT !.tested =
                  [e \in Eqs |-> IF \E i \in 1..Len(equipos_ok) : equipos_ok[i] = e
                                 THEN 1 ELSE 0]]
    /\ wf = IdleWf
    /\ sends = <<>>
    /\ probes = {}
    /\ reports = {}
    /\ seen = {}
    /\ failed = {}
FleetIdle ==
    /\ equipos_ok = <<>>
    /\ flota = Flota0
    /\ wf = IdleWf
    /\ sends = <<>>
    /\ probes = {}
    /\ reports = {}
    /\ seen = {}
    /\ failed = {}

\* the invocation returns before its loop: state "done", or "raised"
Leave(name, answer, state) ==
    /\ wf' = [name |-> name, state |-> state, answer |-> answer, list |-> <<>>, i |-> 0]
    /\ UNCHANGED <<equipos_ok, sends, probes, reports, seen, failed, flota>>
\* the invocation reaches its loop over list
Enter(name, answer, list) ==
    /\ wf' = [name |-> name, state |-> "run", answer |-> answer, list |-> list, i |-> 1]
    /\ UNCHANGED <<sends, reports, seen, failed>>

Proceeds_Always(answer) == TRUE
\* if not mb.askyesno(...): return  /  if not codigo: return
Proceeds(answer) == answer

\* _iter_equipos_ok_as_eqdefs: testear_conexiones runs only when the
\* service holds no tested equipment; ok is what answers the ping
IterEquiposOk(name, answer) ==
    IF equipos_ok = <<>>
    THEN \E ok \in SubSeqs(DescubrirEquipos) :
           /\ equipos_ok' = ok
           /\ probes' = {e \in Eqs : flota.equipos[e] # 0}
           /\ flota' = [flota EXCEPT !.tested = TestedAs(ok)]
           /\ Enter(name, answer, ok)
    ELSE /\ UNCHANGED <<equipos_ok, probes, flota>>
         /\ Enter(name, answer, equipos_ok)

\* _ui_vaciar_dptos, _ui_vaciar_plus, up to the loop
UiVaciar ==
    /\ wf.state = "idle"
    /\ \E name \in WipeFlows, answer \in BOOLEAN :
         IF Proceeds(answer) THEN IterEquiposOk(name, answer) ELSE Leave(name, answer, "done")
    /\ UNCHANGED <<restVars, drvVars, mt>>

\* _ui_restaurar_modelo: after the dialog, self._get_bajas_service() is an
\* attribute the class does not define
UiRestaurarModelo ==
    /\ wf.state = "idle"
    /\ \E answer \in BOOLEAN :
         IF Proceeds(answer)
         THEN Leave("ui_restaurar_modelo", answer, "raised")
         ELSE Leave("ui_restaurar_modelo", answer, "done")
    /\ UNCHANGED <<restVars, drvVars, mt>>

\* _ui_alta_depto, _ui_alta_familia, _ui_alta_plu, up to the loop; answer:
\* the first askstring returned a value
UiAlta ==
    /\ wf.state = "idle"
    /\ \E name \in AltaFlows, answer \in BOOLEAN :
         IF answer THEN IterEquiposOk(name, answer) ELSE Leave(name, answer, "done")
    /\ UNCHANGED <<restVars, drvVars, mt>>

\* _enviar_departamentos_balanzas, _enviar_articulos_balanzas,
\* _enviar_dptos_y_articulos_balanzas, up to the loop
ShellEnviar ==
    /\ wf.state = "idle"
    /\ \E name \in ShellFlows : Enter(name, TRUE, DescubrirEquipos)
    /\ UNCHANGED <<restVars, drvVars, mt, equipos_ok, probes, flota>>

\* EnvioBalanzasService.enviar_departamentos / enviar_articulos, up to the loop
SvcEnviar ==
    /\ wf.state = "idle"
    /\ \E name \in SvcFlows : Enter(name, TRUE, equipos_ok)
    /\ UNCHANGED <<restVars, drvVars, mt, equipos_ok, probes, flota>>

\* the loop's turn for equipment e
InLoop == wf.state = "run" /\ wf.i <= Len(wf.list)
Cur == wf.list[wf.i]
Sent(e, via, lines) == Append(sends, [eq |-> e, via |-> via, lines |-> lines])
Report(e, ev) == reports \cup {[eq |-> e, ev |-> ev]}
Turn(state) ==
    /\ wf' = [wf EXCEPT !.i = wf.i + 1, !.state = state]
    /\ seen' = seen \cup {Cur}

\* the EquipoDef built from a tested Equipo: the address the command goes
\* to, next to the one repo.equipos holds for the equipment at that moment
SentTo(e) == [eq |-> e, addr |-> flota.tested[e], cur |-> flota.equipos[e]]

\* try: self._kretz.<one command>(eq) except Exception: report "error"
AdapterTurn ==
    /\ InLoop
    /\ wf.name \in WipeFlows \cup AltaFlows
    /\ \E raises \in BOOLEAN :
         IF raises
         THEN /\ reports' = Report(Cur, "error")
              /\ failed' = failed \cup {Cur}
              /\ sends' = sends
         ELSE /\ sends' = Sent(Cur, "info", <<InfoLine(FlowCmd(wf.name), <<>>)>>)
              /\ reports' = Report(Cur, "info")
              /\ UNCHANGED failed
    /\ flota' = IF sends' = sends THEN flota ELSE [flota EXCEPT !.to = SentTo(Cur)]
    /\ Turn("run")
    /\ UNCHANGED <<restVars, drvVars, mt, equipos_ok, probes>>

\* one equipment of _enviar_departamentos_balanzas / _enviar_articulos_balanzas
ShellTurn ==
    /\ InLoop
    /\ wf.name \in {"enviar_departamentos_balanzas", "enviar_articulos_balanzas"}
    /\ \E d \in DataChoices, raises \in BOOLEAN :
         LET lines == IF wf.name = "enviar_departamentos_balanzas"
                      THEN DeptoLines(d.deptos) ELSE PluLines(d.rows)
             skipped == \/ d.deptos = 0
                        \/ wf.name = "enviar_articulos_balanzas" /\ d.rows = <<>>
         IN  IF skipped
             THEN /\ reports' = Report(Cur, "skip")
                  /\ UNCHANGED <<sends, failed>>
             ELSE IF raises
             THEN /\ reports' = Report(Cur, "error")
                  /\ failed' = failed \cup {Cur}
                  /\ UNCHANGED sends
             ELSE /\ sends' = IF lines = <<>> THEN sends ELSE Sent(Cur, "info", lines)
                  /\ reports' = Report(Cur, "info")
                  /\ UNCHANGED failed
    /\ Turn("run")
    /\ UNCHANGED <<restVars, drvVars, mt, equipos_ok, probes, flota>>

\* the four sends of the combined workflow for one equipment, in the order
\* of the try block
ComboSends(d) ==
    <<<<configurar_codbarra_1070(20, FALSE, 20, FALSE, 1)>>,
      <<configurar_moneda_2026(2, 1, 3)>>,
      <<seleccionar_moneda_1010(2)>>,
      enviar_dptos_y_articulos(d)>>
RECURSIVE SentAll(_, _, _)
SentAll(log, e, batches) ==
    IF batches = <<>> THEN log
    ELSE SentAll(Append(log, [eq |-> e, via |-> "info", lines |-> Head(batches)]),
                 e, Tail(batches))

\* one equipment of _enviar_dptos_y_articulos_balanzas; a send that raises
\* ends the try block after the k sends before it
ComboTurn ==
    /\ InLoop
    /\ wf.name = "enviar_dptos_y_articulos_balanzas"
    /\ \E d \in DataChoices, k \in 0..4 :
         IF d.deptos = 0 \/ d.rows = <<>>
         THEN /\ reports' = Report(Cur, "skip")
              /\ UNCHANGED <<sends, failed>>
         ELSE /\ sends' = SentAll(sends, Cur, SubSeq(ComboSends(d), 1, k))
              /\ reports' = Report(Cur, IF k = 4 THEN "info" ELSE "error")
              /\ failed' = IF k = 4 THEN failed ELSE failed \cup {Cur}
    /\ Turn("run")
    /\ UNCHANGED <<restVars, drvVars, mt, equipos_ok, probes, flota>>

\* one equipment of EnvioBalanzasService.enviar_departamentos: send_many
\* connects outside any try; a refused connection leaves the method
SvcDeptosTurn ==
    /\ InLoop
    /\ wf.name = "svc_enviar_departamentos"
    /\ \E d \in DataChoices, refused \in BOOLEAN, answers \in BOOLEAN :
         IF refused
         THEN /\ failed' = failed \cup {Cur}
              /\ reports' = Report(Cur, "info")
              /\ UNCHANGED sends
              /\ Turn("raised")
         ELSE /\ sends' = IF d.deptos = 0 THEN sends
                          ELSE Sent(Cur, "tcp", DeptoLines(d.deptos))
              /\ reports' = IF d.deptos = 0 THEN Report(Cur, "info")
                            ELSE Report(Cur, IF answers THEN "depto_ok" ELSE "depto_error")
              /\ failed' = IF d.deptos > 0 /\ ~answers THEN failed \cup {Cur} ELSE failed
              /\ Turn("run")
    /\ UNCHANGED <<restVars, drvVars, mt, equipos_ok, probes, flota>>

\* one equipment of EnvioBalanzasService.enviar_articulos: each article in
\* its own try
SvcArticulosTurn ==
    /\ InLoop
    /\ wf.name = "svc_enviar_articulos"
    /\ \E d \in DataChoices, refused \in BOOLEAN :
         IF d.rows = <<>>
         THEN /\ reports' = Report(Cur, "info")
              /\ UNCHANGED <<sends, failed>>
         ELSE IF refused
         THEN /\ reports' = Report(Cur, "plu_error")
              /\ failed' = failed \cup {Cur}
              /\ UNCHANGED sends
         ELSE /\ sends' = Sent(Cur, "tcp", [i \in 1..Len(d.rows) |-> InfoLine("2005", <<>>)])
              /\ reports' = Report(Cur, "plu_ok")
              /\ UNCHANGED failed
    /\ Turn("run")
    /\ UNCHANGED <<restVars, drvVars, mt, equipos_ok, probes, flota>>

\* _enviar_formato_moneda_un_decimal, up to the loop
MonedaFlows == {"enviar_formato_moneda_un_decimal"}
UiMoneda ==
    /\ wf.state = "idle"
    /\ \E name \in MonedaFlows, answer \in BOOLEAN :
         IF Proceeds(answer) THEN IterEquiposOk(name, answer) ELSE Leave(name, answer, "done")
    /\ UNCHANGED <<restVars, drvVars, mt>>

\* one equipment of _enviar_formato_moneda_un_decimal: two sends in one try;
\* a send that raises ends the try block after the k sends before it
MonedaTurn ==
    /\ InLoop
    /\ wf.name \in MonedaFlows
    /\ \E k \in 0..2 :
         /\ sends' = SentAll(sends, Cur,
                             SubSeq(<<<<configurar_moneda_2026(2, 1, 3)>>,
                                      <<seleccionar_moneda_1010(2)>>>>, 1, k))
         /\ reports' = Report(Cur, IF k = 2 THEN "info" ELSE "error")
         /\ failed' = IF k = 2 THEN failed ELSE failed \cup {Cur}
         /\ flota' = IF k = 0 THEN flota ELSE [flota EXCEPT !.to = SentTo(Cur)]
    /\ Turn("run")
    /\ UNCHANGED <<restVars, drvVars, mt, equipos_ok, probes>>

\* _testear_conexiones_balanzas, from the menu: ok is what answers the ping
TestearConexiones ==
    /\ wf.state = "idle"
    /\ \E ok \in SubSeqs(DescubrirEquipos) :
         /\ equipos_ok' = ok
         /\ flota' = [flota EXCEPT !.tested = TestedAs(ok)]
    /\ UNCHANGED <<restVars, drvVars, mt, wf, sends, probes, reports, seen, failed>>

\* the equipment window saves an edit: repo.update_equipo with another ip
\* or puerto, then repo.equipos is read again
EquipoUpdate ==
    /\ wf.state = "idle"
    /\ flota.edits < MaxEdits
    /\ \E e \in Eqs, a \in Addrs :
         /\ flota.equipos[e] \notin {0, a}
         /\ flota' = [flota EXCEPT !.equipos[e] = a, !.edits = flota.edits + 1]
    /\ UNCHANGED <<restVars, drvVars, mt, equipos_ok, wf, sends, probes, reports, seen,
                   failed>>

\* the equipment window deletes: repo.delete_equipo, then repo.equipos is
\* read again
EquipoDelete ==
    /\ wf.state = "idle"
    /\ flota.edits < MaxEdits
    /\ \E e \in Eqs :
         /\ flota.equipos[e] # 0
         /\ flota' = [flota EXCEPT !.equipos[e] = 0, !.edits = flota.edits + 1]
    /\ UNCHANGED <<restVars, drvVars, mt, equipos_ok, wf, sends, probes, reports, seen,
                   failed>>

\* the loop is over: the workflow returns
FlowEnds ==
    /\ wf.state = "run"
    /\ wf.i > Len(wf.list)
    /\ wf' = [wf EXCEPT !.state = "done"]
    /\ UNCHANGED <<restVars, drvVars, mt, equipos_ok, sends, probes, reports, seen, failed, flota>>

\* --------------------------------------------------- the 2005 PLU record
\* Text is kept as a sequence of one-character strings.
DigitChars == <<"0", "1", "2", "3", "4", "5", "6", "7", "8", "9">>
IsDigit(c) == \E i \in 1..Len(DigitChars) : DigitChars[i] = c
DigitVal(c) == (CHOOSE i \in 1..Len(DigitChars) : DigitChars[i] = c) - 1
\* str(n)
RECURSIVE StrNat(_)
StrNat(n) ==
    IF n < 10 THEN <<DigitChars[n + 1]>>
    ELSE StrNat(n \div 10) \o <<DigitChars[(n % 10) + 1]>>
StrInt(n) == IF n < 0 THEN <<"-">> \o StrNat(0 - n) ELSE StrNat(n)
\* int(s) of a digit string
RECURSIVE IntOf(_)
IntOf(s) ==
    IF s = <<>> THEN 0 ELSE IntOf(SubSeq(s, 1, Len(s) - 1)) * 10 + DigitVal(s[Len(s)])
RECURSIVE Rep(_, _)
Rep(c, n) == IF n <= 0 THEN <<>> ELSE <<c>> \o Rep(c, n - 1)
\* s.rjust(w, c), s.ljust(w, c), s[:w], s[-w:] (w > 0)
Rjust(s, w, c) == Rep(c, w - Len(s)) \o s
Ljust(s, w, c) == s \o Rep(c, w - Len(s))
First(s, w) == SubSeq(s, 1, Min(Len(s), w))
Last(s, w) == SubSeq(s, Max(1, Len(s) - w + 1), Len(s))
\* s.strip()
RECURSIVE Strip(_)
Strip(s) ==
    IF s = <<>> THEN s
    ELSE IF Head(s) = " " THEN Strip(Tail(s))
    ELSE IF s[Len(s)] = " " THEN Strip(SubSeq(s, 1, Len(s) - 1))
    ELSE s
\* s.isdigit()
IsDigits(s) == s # <<>> /\ \A i \in 1..Len(s) : IsDigit(s[i])
\* re.sub(r"\D+", "", s)
digits(s) == SelectSeq(s, IsDigit)

\* _pad_num(value, length) of a text value, and of an int (0 is falsy)
pad_num(value, length) ==
    LET s == Strip(value)
        d == IF IsDigits(s) THEN s ELSE <<"0">>
    IN  Rjust(Last(d, length), length, "0")
pad_num_int(n, length) == pad_num(IF n = 0 THEN <<>> ELSE StrInt(n), length)
pad_txt(value, length) == Ljust(First(value, length), length, " ")
pad_num_w(n, w) == IF w > 0 THEN Rjust(StrInt(n), w, "0") ELSE <<>>
pad_txt_w(s, w) == IF w > 0 THEN Ljust(First(s, w), w, " ") ELSE <<>>

\* MODEL_2005_PLU: the width of each of the 22 fields; MODEL_2005_TOTAL
MODEL_2005_PLU == <<6, 3, 3, 26, 26, 5, 1, 7, 6, 6, 6, 6, 6, 5, 5, 2, 4, 4, 4, 0, 0, 4>>
RECURSIVE SumSeq(_)
SumSeq(q) == IF q = <<>> THEN 0 ELSE Head(q) + SumSeq(Tail(q))
MODEL_2005_TOTAL == SumSeq(MODEL_2005_PLU)

\* A price as the source receives it: text of digits only ("digits", read as
\* cents as it stands), a decimal number ("decimal", whole.frac with frac in
\* hundredths, possibly negative), or text Decimal cannot read ("bad").
\* _price_to_width(v, w): cents clamped to 0..10^w - 1, right-justified
Pow10(w) == IntOf(<<"1">> \o Rep("0", w))
price_to_width(v, w) ==
    IF w <= 0 THEN <<>>
    ELSE LET raw == CASE v.kind = "digits" -> v.whole
                      [] v.kind = "decimal" ->
                           (IF v.neg THEN 0 - 1 ELSE 1) * (v.whole * 100 + v.frac)
                      [] OTHER -> 0
             cents == Min(Max(raw, 0), Pow10(w) - 1)
         IN  Rjust(StrNat(cents), w, "0")

\* _coerce_plu6: CREF when it is exactly four digits, else the digits 3..6 of
\* a CCODEBAR that begins with six digits; <<>> stands for None
coerce_plu6(it) ==
    LET cref == Strip(it.CREF)
        ccb == Strip(it.CCODEBAR)
        base4 == IF Len(cref) = 4 /\ IsDigits(cref) THEN cref
                 ELSE IF Len(ccb) >= 6 /\ IsDigits(First(ccb, 6)) THEN SubSeq(ccb, 3, 6)
                 ELSE <<>>
    IN  IF base4 = <<>> THEN <<>> ELSE Rjust(base4, 6, "0")
\* _coerce_dep3: the last three digits of CGRPCONTA when they are not zero
coerce_dep3(it) ==
    LET s == digits(it.CGRPCONTA)
        n == IntOf(Last(s, 3))
    IN  IF s = <<>> \/ n <= 0 THEN <<>> ELSE pad_num_int(n, 3)
tipo_from_cvencom(v) == IF v \in {"U", "UNI", "UN", "UNIDAD", "N", "NO"} THEN "N" ELSE "P"
\* _imp_from_ctipoiva, from n = int(round(p * 100)), p = 0.0 when unreadable
imp_from_ctipoiva(n) == pad_num_int(n, 6)

\* KretzAdapter._build_datos_2005_modelo(it, fam_def, dec_prec); <<>> stands
\* for None
build_datos_2005_modelo(it, fam_def, dec_prec) ==
    LET W == MODEL_2005_PLU
        plu6 == coerce_plu6(it)
        dep == coerce_dep3(it)
        plu4 == Last(plu6, 4)
        fam == pad_num_w(fam_def, W[3])
        nom == pad_txt_w(IF it.CDETALLE # <<>> THEN it.CDETALLE
                         ELSE <<"P", "L", "U", " ">> \o plu6, W[4])
        desc == pad_txt_w(<<>>, W[5])
        tipo == Ljust(First(<<tipo_from_cvencom(it.CVENCOM)>>, 1), W[7], " ")
        valor_fijo == pad_num_w(0, W[8])
        precio == price_to_width(it.NPVP1, W[9])
        precio_alt == pad_num_w(0, W[10])
        precio_ant == pad_num_w(0, W[11])
        imp1 == Rjust(Last(imp_from_ctipoiva(it.CTIPOIVA), W[12]), W[12], "0")
        imp2 == pad_num_w(0, W[13])
        tara_pre == pad_num_w(0, W[14])
        tara_pub == pad_num_w(0, W[15])
        cod_etq == pad_num_w(1, W[16])
        cod_rec == pad_num_w(0, W[17])
        cod_nut == pad_num_w(0, W[18])
        campo19 == pad_num_w(0, W[19])
        campo22 == pad_num_w(Max(0, Min(2, dec_prec)), W[22])
        cod5 == IF Len(<<"0">> \o plu4) # W[6]
                THEN Rjust(Last(<<"0">> \o plu4, W[6]), W[6], "0")
                ELSE <<"0">> \o plu4
    IN  IF plu6 = <<>> \/ dep = <<>> THEN <<>>
        ELSE plu6 \o dep \o fam \o nom \o desc \o cod5 \o tipo \o valor_fijo
             \o precio \o precio_alt \o precio_ant \o imp1 \o imp2 \o tara_pre
             \o tara_pub \o cod_etq \o cod_rec \o cod_nut \o campo19 \o campo22

valid_2005_data(datos) == Len(datos) = MODEL_2005_TOTAL

\* the loop of enviar_plus and of enviar_dptos_y_articulos over the items: the
\* data of the 2005 lines appended, and the number of items skipped
RECURSIVE Lines2005(_, _)
Lines2005(items, fam_def) ==
    IF items = <<>> THEN [datos |-> <<>>, skips |-> 0]
    ELSE LET d == build_datos_2005_modelo(Head(items), fam_def, 1)
             r == Lines2005(Tail(items), fam_def)
         IN  IF d = <<>> \/ ~valid_2005_data(d)
             THEN [r EXCEPT !.skips = r.skips + 1]
             ELSE [r EXCEPT !.datos = <<d>> \o r.datos]

\* KretzAdapter.alta_plu: the data of its one 2005 line, the fields the shell
\* does not ask for at their defaults
alta_plu(nro_plu, cod_depto, cod_familia, nombre, precio) ==
    pad_num(nro_plu, 6) \o pad_num(cod_depto, 3) \o pad_num(cod_familia, 3)
    \o pad_txt(nombre, 26) \o pad_txt(<<>>, 26) \o pad_txt(<<>>, 5) \o <<"P">>
    \o pad_num_int(0, 7) \o pad_num(precio, 7) \o pad_num_int(0, 7)
    \o pad_num_int(0, 7) \o pad_num_int(0, 6) \o pad_num_int(0, 6)
    \o pad_num_int(0, 5) \o pad_num_int(0, 5) \o pad_num_int(1, 2)
    \o pad_num_int(0, 4) \o pad_num_int(0, 4) \o pad_num_int(0, 1)
    \o pad_num_int(0, 3) \o pad_num_int(0, 4)

\* the article rows and the operator's entries the calls are made with
Txt(s) == [i \in 1..Len(s) |-> s[i]]
Crefs == {<<"1", "0", "1", "7">>, <<"A", "B", "C">>, <<" ", "4", "2", " ">>}
Ccodebars == {<<"2", "0", "1", "0", "1", "7", "0", "0">>, <<"2", "0", "X">>}
Cgrpcontas == {<<"0", "0", "5">>, <<"0", "0", "0">>, <<"1", "2", "3", "4", "5">>, <<>>}
NameLens == {0, 5, 26, MaxName}
Prices ==
    {[kind |-> "digits", neg |-> FALSE, whole |-> 19, frac |-> 0],
     [kind |-> "decimal", neg |-> FALSE, whole |-> 19, frac |-> 50],
     [kind |-> "decimal", neg |-> FALSE, whole |-> MaxPrice, frac |-> 99],
     [kind |-> "decimal", neg |-> TRUE, whole |-> 5, frac |-> 0],
     [kind |-> "bad", neg |-> FALSE, whole |-> 0, frac |-> 0]}
Ivas == {0, 2100, 0 - 500, 12345678}
FamDefs == {0, 1, 999, 1000}
Items ==
    [CREF : Crefs, CCODEBAR : Ccodebars, CGRPCONTA : Cgrpcontas,
     CDETALLE : {Rep("x", n) : n \in NameLens}, NPVP1 : Prices,
     CVENCOM : {"U", "KG"}, CTIPOIVA : Ivas]
\* an item whose PLU6 and department are derivable
Derivable(it) == coerce_plu6(it) # <<>> /\ coerce_dep3(it) # <<>>

\* an invalid row, a valid one, and one with a long name and a barcode only
SomeItems ==
    {it \in Items :
       /\ it.NPVP1.kind = "decimal" /\ it.NPVP1.whole = 19 /\ it.CVENCOM = "KG"
       /\ it.CTIPOIVA = 2100 /\ it.CCODEBAR = <<"2", "0", "X">>
       /\ it.CGRPCONTA = <<"0", "0", "5">> /\ it.CDETALLE = Rep("x", MaxName)
       /\ it.CREF \in {<<"1", "0", "1", "7">>, <<"A", "B", "C">>}}
\* the batches: every single row, and the rows of SomeItems in any order
Batches ==
    {<<it>> : it \in Items} \cup UNION {[1..n -> SomeItems] : n \in 2..MaxItems}

NoPlu == [op |-> "", datos |-> <<>>, skips |-> 0, items |-> <<>>, fam |-> 0]
\* enviar_plus / enviar_dptos_y_articulos(eq, ..., articulos, cod_familia_def):
\* the 2005 lines of the batch handed to _send
\* (a call does not depend on the calls before it: one call is followed)
Enviar2005(op) ==
    /\ plu = NoPlu
    /\ \E items \in Batches, fam \in FamDefs :
         LET r == Lines2005(items, fam) IN
           plu' = [op |-> op, datos |-> r.datos, skips |-> r.skips,
                   items |-> items, fam |-> fam]
EnviarPlus ==
    /\ Enviar2005("enviar_plus")
    /\ UNCHANGED <<drvVars, mt, fleetVars, db, repo, jrepo, tcp, dba, fn>>
EnviarDptosYArticulos ==
    /\ Enviar2005("enviar_dptos_y_articulos")
    /\ UNCHANGED <<drvVars, mt, fleetVars, db, repo, jrepo, tcp, dba, fn>>
\* _ui_alta_plu -> alta_plu: the operator's entries, as typed
AltaPlu ==
    /\ plu = NoPlu
    /\ \E nro \in Crefs, dep \in Cgrpcontas \ {<<>>}, nl \in NameLens,
          precio \in {<<"0">>, <<"1", "9", "5", "0">>, <<"1", "9", ",", "5">>} :
         plu' = [op |-> "alta_plu",
                 datos |-> <<alta_plu(nro, dep, <<"0", "0", "1">>, Rep("x", nl), precio)>>,
                 skips |-> 0, items |-> <<>>, fam |-> 1]
    /\ UNCHANGED <<drvVars, mt, fleetVars, db, repo, jrepo, tcp, dba, fn>>

\* ------------------------------------- the database and the repositories
\* The tables hold what the DAOs read and write: GRP_VENT rows as
\* [codigo, nombre], BALA_EQUIPOS rows as [id, nombre, ip], BALA_DPTOS rows as
\* <<equipo_id, cgrpconta>>.  puerto and autoreport are stored and read back
\* verbatim and decide nothing, so the rows leave them out.  Department codes
\* are zero-padded three-digit texts; they are written as their value, whose
\* order is the order of the texts.  The database is reachable; a statement
\* that breaks a key fails inside DBAService.execute, which returns 0.
Codes == {5, 10, 999}
Nombres == {"a", "b"}
EqNombres == {"E1", "E2"}
EqIps == {"10.0.0.5", "10.0.0.6"}
CodeLists == {<<>>, <<5>>, <<10>>, <<999>>, <<5, 10>>, <<5, 999>>, <<5, 5>>}

Range(s) == {s[i] : i \in DOMAIN s}

\* ORDER BY, sorted(): the members of a set of numbers in increasing order
RECURSIVE SortSet(_)
SortSet(S) ==
    IF S = {} THEN <<>>
    ELSE LET m == CHOOSE x \in S : \A y \in S : x <= y
         IN <<m>> \o SortSet(S \ {m})

\* DepartamentosGRPVentDAO
dep_listar(d) ==
    LET cs == SortSet({r.codigo : r \in d.grp})
    IN [i \in 1..Len(cs) |-> CHOOSE r \in d.grp : r.codigo = cs[i]]

\* CGRPCONTA is the primary key: a second row with the code is refused
dep_insertar(d, cgrpconta, cgrpnom) ==
    IF \E r \in d.grp : r.codigo = cgrpconta THEN d
    ELSE [d EXCEPT !.grp = @ \cup {[codigo |-> cgrpconta, nombre |-> cgrpnom]}]

dep_actualizar(d, cgrpconta, cgrpnom) ==
    [d EXCEPT !.grp = {IF r.codigo = cgrpconta
                       THEN [r EXCEPT !.nombre = cgrpnom] ELSE r : r \in @}]

\* BALA_DPTOS.cgrpconta references GRP_VENT: a referenced row is not deleted
dep_eliminar(d, cgrpconta) ==
    IF \E r \in d.rel : r[2] = cgrpconta THEN d
    ELSE [d EXCEPT !.grp = {r \in @ : r.codigo # cgrpconta}]

\* BalaEquiposDAO
eq_listar(d) ==
    LET ids == SortSet({r.id : r \in d.eq})
    IN [i \in 1..Len(ids) |-> CHOOSE r \in d.eq : r.id = ids[i]]

\* 0 stands for None
get_id_por_nombre_ip(d, nombre, ip) ==
    LET m == {r.id : r \in {x \in d.eq : x.nombre = nombre /\ x.ip = ip}}
    IN IF m = {} THEN 0 ELSE CHOOSE x \in m : \A y \in m : y <= x

\* nombre is UNIQUE, id is AUTOINCREMENT
eq_insertar(d, nombre, ip) ==
    IF \E r \in d.eq : r.nombre = nombre THEN d
    ELSE [d EXCEPT !.eq = @ \cup {[id |-> d.next, nombre |-> nombre, ip |-> ip]},
                   !.next = @ + 1]

eq_actualizar(d, id_equipo, nombre, ip) ==
    IF \E r \in d.eq : r.id # id_equipo /\ r.nombre = nombre THEN d
    ELSE [d EXCEPT !.eq = {IF r.id = id_equipo
                           THEN [r EXCEPT !.nombre = nombre, !.ip = ip]
                           ELSE r : r \in @}]

\* BALA_DPTOS.equipo_id references BALA_EQUIPOS ON DELETE CASCADE
eq_eliminar(d, id_equipo) ==
    [d EXCEPT !.eq = {r \in @ : r.id # id_equipo},
              !.rel = {r \in @ : r[1] # id_equipo}]

\* BalaDeptosDAO
codigos_validos(d, codigos) ==
    {c \in Range(codigos) : \E r \in d.grp : r.codigo = c}

\* a DELETE that removes nothing
rel_delete_none(d, equipo_id) == d

\* DELETE FROM DBA.BALA_DPTOS WHERE equipo_id = ...
rel_delete(d, equipo_id) == [d EXCEPT !.rel = {r \in @ : r[1] # equipo_id}]

\* the tables after the call, and the list returned
reemplazar_relaciones(d, equipo_id, codigos) ==
    LET d1 == rel_delete(d, equipo_id)
        validos == codigos_validos(d1, codigos)
    IN [db |-> [d1 EXCEPT !.rel = @ \cup {<<equipo_id, c>> : c \in validos}],
        invalidos |-> SelectSeq(codigos, LAMBDA c : c \notin validos)]

\* RepoSybase._refresh: the two collections read from the tables
refresh(d) ==
    LET e_rows == eq_listar(d)
    IN [departamentos |-> dep_listar(d),
        equipos |-> [i \in 1..Len(e_rows) |->
            [id |-> e_rows[i].id, nombre |-> e_rows[i].nombre,
             ip |-> e_rows[i].ip,
             deptos |-> SortSet({r[2] : r \in {x \in d.rel : x[1] = e_rows[i].id}})]]]

\* what the last facade call did: raised is the exception it ended with,
\* existed tells whether the code given to add_depto was in the list when
\* the call began (for the equipment calls: whether eid was an equipment of
\* the table when the call began, rel_before its departments then), ins / del whether the call issued the insert / delete on
\* the department list, rr whether it called reemplazar_relaciones, with eid,
\* cods and the list returned
NoLast ==
    [op |-> "", raised |-> "", codigo |-> 0, existed |-> FALSE, ins |-> FALSE,
     del |-> FALSE, rr |-> FALSE, eid |-> 0, cods |-> <<>>, invalidos |-> <<>>,
     rel_before |-> {}]

Cache(r) == [departamentos |-> r.departamentos, equipos |-> r.equipos]
WithCache(c, n, last) ==
    [departamentos |-> c.departamentos, equipos |-> c.equipos, n |-> n,
     last |-> last]

NoDb == [grp |-> {}, eq |-> {}, rel |-> {}, next |-> 1]
NoRepo == WithCache(refresh(NoDb), 0, NoLast)

\* the tables RepoSybase is constructed on
Db0 ==
    [grp |-> {[codigo |-> 5, nombre |-> "a"], [codigo |-> 10, nombre |-> "b"]},
     eq |-> {}, rel |-> {}, next |-> 1]

\* abm_data.json as Repo._load finds it
NoJRepo ==
    [departamentos |-> <<>>, equipos |-> <<>>, n |-> 0, last |-> NoLast]
JRepo0 ==
    [departamentos |-> <<[codigo |-> 5, nombre |-> "a"],
                         [codigo |-> 10, nombre |-> "b"]>>,
     equipos |-> <<[nombre |-> "E1", depto_codigo |-> 10]>>,
     n |-> 0, last |-> NoLast]

\* a session works on one of the two repositories
UsesSybase == jrepo.n = 0 /\ repo.n < MaxOps
UsesJson == repo.n = 0 /\ jrepo.n < MaxOps /\ jrepo # NoJRepo
DbFrame == UNCHANGED <<drvVars, mt, fleetVars, plu, tcp, dba, fn>>

\* RepoSybase.add_depto
AddDepto ==
    \E codigo \in Codes, nombre \in Nombres :
        /\ UsesSybase
        /\ db' = dep_insertar(db, codigo, nombre)
        /\ repo' = WithCache(refresh(db'), repo.n + 1,
               [NoLast EXCEPT !.op = "add_depto", !.codigo = codigo,
                              !.existed = \E r \in db.grp : r.codigo = codigo,
                              !.ins = TRUE])
        /\ UNCHANGED jrepo /\ DbFrame

\* RepoSybase.update_depto
UpdateDepto ==
    \E codigo \in Codes, nombre \in Nombres :
        /\ UsesSybase
        /\ db' = dep_actualizar(db, codigo, nombre)
        /\ repo' = WithCache(refresh(db'), repo.n + 1,
               [NoLast EXCEPT !.op = "update_depto", !.codigo = codigo])
        /\ UNCHANGED jrepo /\ DbFrame

\* RepoSybase.delete_depto
DeleteDepto ==
    \E codigo \in Codes :
        /\ UsesSybase
        /\ IF \E i \in DOMAIN repo.equipos : codigo \in Range(repo.equipos[i].deptos)
           THEN /\ db' = db
                /\ repo' = WithCache(Cache(repo), repo.n + 1,
                       [NoLast EXCEPT !.op = "delete_depto", !.codigo = codigo,
                                      !.raised = "ValueError"])
           ELSE /\ db' = dep_eliminar(db, codigo)
                /\ repo' = WithCache(refresh(db'), repo.n + 1,
                       [NoLast EXCEPT !.op = "delete_depto", !.codigo = codigo,
                                      !.del = TRUE])
        /\ UNCHANGED jrepo /\ DbFrame

\* the departments related to an equipment
RelOf(d, equipo_id) == {x[2] : x \in {y \in d.rel : y[1] = equipo_id}}

\* the end of add_equipo and update_equipo: the relations are replaced, and
\* the ValueError leaves before _refresh
ReplaceAndRefresh(op, d1, eid, depto_codigos) ==
    LET r == reemplazar_relaciones(d1, eid, depto_codigos)
        last == [NoLast EXCEPT !.op = op, !.rr = TRUE, !.eid = eid,
                               !.cods = depto_codigos,
                               !.invalidos = r.invalidos,
                               !.existed = \E x \in db.eq : x.id = eid,
                               !.rel_before = RelOf(db, eid)]
    IN /\ db' = r.db
       /\ repo' = IF r.invalidos # <<>>
                  THEN WithCache(Cache(repo), repo.n + 1,
                                 [last EXCEPT !.raised = "ValueError"])
                  ELSE WithCache(refresh(db'), repo.n + 1, last)

\* RepoSybase.add_equipo
AddEquipo ==
    \E nombre \in EqNombres, ip \in EqIps, depto_codigos \in CodeLists :
        LET d1 == eq_insertar(db, nombre, ip)
            eid == get_id_por_nombre_ip(d1, nombre, ip)
        IN /\ UsesSybase
           /\ IF eid # 0
              THEN ReplaceAndRefresh("add_equipo", d1, eid, depto_codigos)
              ELSE /\ db' = d1
                   /\ repo' = WithCache(refresh(db'), repo.n + 1,
                          [NoLast EXCEPT !.op = "add_equipo",
                                         !.cods = depto_codigos])
           /\ UNCHANGED jrepo /\ DbFrame

\* RepoSybase.update_equipo; idx counts from 0
UpdateEquipo ==
    \E idx \in 0..MaxOps, nombre \in EqNombres, ip \in EqIps,
       depto_codigos \in CodeLists :
        LET lista == eq_listar(db)
        IN /\ UsesSybase
           /\ IF ~(0 <= idx /\ idx < Len(lista))
              THEN /\ db' = db
                   /\ repo' = WithCache(Cache(repo), repo.n + 1,
                          [NoLast EXCEPT !.op = "update_equipo",
                                         !.raised = "IndexError"])
              ELSE ReplaceAndRefresh("update_equipo",
                       eq_actualizar(db, lista[idx + 1].id, nombre, ip),
                       lista[idx + 1].id, depto_codigos)
           /\ UNCHANGED jrepo /\ DbFrame

\* RepoSybase.delete_equipo
DeleteEquipo ==
    \E idx \in 0..MaxOps :
        LET lista == eq_listar(db)
        IN /\ UsesSybase
           /\ IF ~(0 <= idx /\ idx < Len(lista))
              THEN /\ db' = db
                   /\ repo' = WithCache(Cache(repo), repo.n + 1,
                          [NoLast EXCEPT !.op = "delete_equipo",
                                         !.raised = "IndexError"])
              ELSE /\ db' = eq_eliminar(db, lista[idx + 1].id)
                   /\ repo' = WithCache(refresh(db'), repo.n + 1,
                          [NoLast EXCEPT !.op = "delete_equipo",
                                         !.eid = lista[idx + 1].id])
           /\ UNCHANGED jrepo /\ DbFrame

\* list.sort(key=codigo): a stable insertion of the appended row
RECURSIVE SortByCodigo(_)
SortByCodigo(s) ==
    IF s = <<>> THEN <<>>
    ELSE LET rest == SortByCodigo(Tail(s))
             lo == SelectSeq(rest, LAMBDA r : r.codigo < Head(s).codigo)
             hi == SelectSeq(rest, LAMBDA r : r.codigo >= Head(s).codigo)
         IN lo \o <<Head(s)>> \o hi

JLast(op, codigo, raised, ins) ==
    [NoLast EXCEPT !.op = op, !.codigo = codigo, !.raised = raised, !.ins = ins,
                   !.existed = op = "add_depto" /\ ~ins]

\* Repo.add_depto (abm_departamentos.py)
JsonAddDepto ==
    \E codigo \in Codes, nombre \in Nombres :
        /\ UsesJson
        /\ jrepo' =
             IF \E i \in DOMAIN jrepo.departamentos :
                    jrepo.departamentos[i].codigo = codigo
             THEN [jrepo EXCEPT !.n = @ + 1,
                       !.last = JLast("add_depto", codigo, "ValueError", FALSE)]
             ELSE [jrepo EXCEPT !.n = @ + 1,
                       !.departamentos = SortByCodigo(
                           Append(@, [codigo |-> codigo, nombre |-> nombre])),
                       !.last = JLast("add_depto", codigo, "", TRUE)]
        /\ UNCHANGED <<db, repo>> /\ DbFrame

\* Repo.update_depto
JsonUpdateDepto ==
    \E codigo \in Codes, nombre \in Nombres :
        /\ UsesJson
        /\ jrepo' =
             IF \E i \in DOMAIN jrepo.departamentos :
                    jrepo.departamentos[i].codigo = codigo
             THEN LET k == CHOOSE i \in DOMAIN jrepo.departamentos :
                          /\ jrepo.departamentos[i].codigo = codigo
                          /\ \A j \in 1..(i - 1) :
                                 jrepo.departamentos[j].codigo # codigo
                  IN [jrepo EXCEPT !.n = @ + 1,
                          !.departamentos[k].nombre = nombre,
                          !.last = JLast("update_depto", codigo, "", FALSE)]
             ELSE [jrepo EXCEPT !.n = @ + 1,
                       !.last = JLast("update_depto", codigo, "ValueError", FALSE)]
        /\ UNCHANGED <<db, repo>> /\ DbFrame

\* Repo.delete_depto
JsonDeleteDepto ==
    \E codigo \in Codes :
        LET kept == SelectSeq(jrepo.departamentos, LAMBDA r : r.codigo # codigo)
        IN /\ UsesJson
           /\ jrepo' =
                IF \E i \in DOMAIN jrepo.equipos :
                       jrepo.equipos[i].depto_codigo = codigo
                THEN [jrepo EXCEPT !.n = @ + 1,
                          !.last = JLast("delete_depto", codigo, "ValueError", FALSE)]
                ELSE IF Len(kept) = Len(jrepo.departamentos)
                THEN [jrepo EXCEPT !.n = @ + 1, !.departamentos = kept,
                          !.last = JLast("delete_depto", codigo, "ValueError", FALSE)]
                ELSE [jrepo EXCEPT !.n = @ + 1, !.departamentos = kept,
                          !.last = [JLast("delete_depto", codigo, "", FALSE)
                                        EXCEPT !.del = TRUE]]
           /\ UNCHANGED <<db, repo>> /\ DbFrame

\* --------------------------------------------- KretzTCP (kretz_driver.py)
\* Bytes are numbers, a response is the sequence of bytes _recv_until_etx
\* returned: whatever the peer sent up to the first chunk holding ETX, or
\* nothing on a timeout.
STX == 2
ETX == 4
RESP_STX == 7

\* s[a:b] with 0 <= a, and b counted from the end when negative
Slice(s, a, b) ==
    LET e == IF b < 0 THEN Len(s) + b ELSE Min(b, Len(s))
    IN IF a + 1 > e THEN <<>> ELSE SubSeq(s, a + 1, e)

\* the check of send_many and of ping
resp_valid(resp) ==
    resp # <<>> /\ resp[1] = RESP_STX /\ resp[Len(resp)] = ETX

\* the check of EnvioBalanzasService.enviar_departamentos
resp_ok_depto(resp) ==
    resp # <<>> /\ Len(resp) >= 4 /\ resp[1] = RESP_STX /\ resp[Len(resp)] = ETX

\* _parse_resp_status: code is the text decoded, <<-1>> stands for None
parse_resp_status(resp) ==
    IF resp = <<>> \/ resp[1] # RESP_STX \/ Len(resp) < 4 \/ resp[Len(resp)] # ETX
    THEN [ok |-> FALSE, code |-> <<-1>>]
    ELSE LET body == Slice(resp, 1, -3)
             pre == /\ Len(body) >= 5 /\ body[1] = 67
                    /\ \A i \in 2..3 : 48 <= body[i] /\ body[i] <= 57
             code_bytes == IF pre THEN Slice(body, 3, 5) ELSE Slice(body, 0, 2)
             code == SelectSeq(code_bytes, LAMBDA x : x < 128)
         IN [ok |-> code = <<48, 49>>, code |-> code]

parse_ack_ok(resp) ==
    resp # <<>> /\ parse_resp_status(resp).code \in {<<48, 49>>, <<48, 51>>}

\* the responses a peer gives
Ack01 == <<7, 48, 49, 53, 65, 4>>
Resps ==
    {<<>>, <<7, 4>>, <<7, 48, 4>>, <<7>>, Ack01, <<7, 48, 51, 53, 67, 4>>,
     <<7, 48, 50, 53, 66, 4>>, <<7, 67, 48, 49, 48, 49, 70, 70, 4>>,
     <<7, 200, 48, 49, 65, 4>>, <<2, 48, 49, 53, 65, 4>>, <<7, 48, 49, 53, 65>>}
\* those send_many is answered with
ManyResps == {<<>>, <<7, 4>>, <<7>>, Ack01, <<2, 48, 49, 53, 65, 4>>}

\* send_many: the retries of a frame are used up
give_up_late(intentos, max_retries) == intentos > max_retries + 1
give_up(intentos, max_retries) == intentos > max_retries

\* pc: where the client is; sock: self._sock is set; opens / closes: the
\* connections send_many opened and closed; nframes, max_retries: its
\* arguments, the frames being 1..nframes; i, intentos, resp: its locals;
\* resps: the list it builds, each entry with the frame it answers; tx: how
\* often each frame was transmitted; retx: the responses a retransmission
\* followed; dec: the last decision taken on a response, by place
NoDec == [place |-> "", resp |-> <<>>, ok |-> FALSE]
NoTcp ==
    [pc |-> "idle", sock |-> FALSE, opens |-> 0, closes |-> 0, nframes |-> 0,
     max_retries |-> 0, i |-> 0, intentos |-> 0, resp |-> <<>>, resps |-> <<>>,
     tx |-> <<>>, retx |-> {}, dec |-> NoDec]
TcpFrame == UNCHANGED <<drvVars, mt, fleetVars, plu, db, repo, jrepo, dba, fn>>

\* send_many up to the first frame: __enter__ connects
SendManyEnter ==
    \E nframes \in 0..MaxFrames, max_retries \in 0..MaxRetries :
        /\ tcp.pc = "idle"
        /\ tcp' = [NoTcp EXCEPT !.pc = IF nframes = 0 THEN "exit" ELSE "loop",
                       !.sock = TRUE, !.opens = 1, !.nframes = nframes,
                       !.max_retries = max_retries, !.i = 1,
                       !.tx = [k \in 1..nframes |-> 0]]
        /\ TcpFrame

\* one turn of the while loop: send the frame, read, decide
SendManySend ==
    \E resp \in ManyResps :
        LET intentos == tcp.intentos + 1
            t1 == [tcp EXCEPT !.resp = resp, !.tx[tcp.i] = @ + 1,
                       !.retx = IF tcp.intentos > 0 THEN @ \cup {tcp.resp} ELSE @,
                       !.dec = [place |-> "send_many", resp |-> resp,
                                ok |-> resp_valid(resp)]]
            next == [t1 EXCEPT !.i = @ + 1, !.intentos = 0,
                         !.resps = Append(@, [frame |-> tcp.i, resp |-> resp]),
                         !.pc = IF tcp.i = tcp.nframes THEN "exit" ELSE "loop"]
        IN /\ tcp.pc = "loop"
           /\ tcp' = IF resp_valid(resp) THEN next
                     ELSE IF give_up(intentos, tcp.max_retries) THEN next
                     ELSE [t1 EXCEPT !.intentos = intentos]
           /\ TcpFrame

\* sendall or recv raises: __exit__ closes, the exception leaves send_many
SendManyRaise ==
    /\ tcp.pc = "loop"
    /\ tcp' = [tcp EXCEPT !.pc = "raised", !.sock = FALSE, !.closes = @ + 1]
    /\ TcpFrame

\* __exit__ closes, send_many returns resps
SendManyExit ==
    /\ tcp.pc = "exit"
    /\ tcp' = [tcp EXCEPT !.pc = "done", !.sock = FALSE, !.closes = @ + 1]
    /\ TcpFrame

\* enviar_departamentos: the turn of its last loop for one answer
DeptoCheck ==
    \E idx \in 1..MaxFrames :
        LET resp == IF idx <= Len(tcp.resps) THEN tcp.resps[idx].resp ELSE <<>>
        IN /\ tcp.pc = "done" /\ idx <= tcp.nframes
           /\ tcp' = [tcp EXCEPT !.dec = [place |-> "enviar_departamentos",
                          resp |-> resp, ok |-> resp_ok_depto(resp)]]
           /\ TcpFrame

\* a decision on one answer outside send_many, by a client made for it
Decide(place, resp, ok) ==
    /\ tcp.pc = "idle"
    /\ tcp' = [tcp EXCEPT !.dec = [place |-> place, resp |-> resp, ok |-> ok]]
    /\ TcpFrame

\* KretzTCP.ping
Ping == \E resp \in Resps : Decide("ping", resp, resp_valid(resp))

\* enviar_articulos: cli.send(frame) and its check
ArticuloSend ==
    \E resp \in Resps : Decide("enviar_articulos", resp, resp_valid(resp))

\* the commands that return parse_ack_ok(resp)
AckParse == \E resp \in Resps : Decide("parse_ack_ok", resp, parse_ack_ok(resp))

\* _parse_resp_status as send logs it and parse_resp_5003 uses it
StatusParse ==
    \E resp \in Resps :
        Decide("_parse_resp_status", resp, parse_resp_status(resp).code # <<-1>>)

\* ------------------------------------------ DBAService (data_access.py)
\* conexion: the connection object the wrapper holds, 0 for None, else the
\* number of the connection; connected: the connections that are open; n:
\* the connections made so far; calls: the calls made; last: the last call,
\* with the connection it opened (own, 0 for none), what it returned (rows
\* of query, rc of execute) and whether an exception left it
NoCall ==
    [op |-> "", path |-> "", own |-> 0, rows |-> <<>>, rc |-> 0, exc |-> "",
     raised |-> FALSE]
NoDba == [conexion |-> 0, connected |-> {}, n |-> 0, calls |-> 0, last |-> NoCall]

\* ConexionSybase.conectar: a failed connect leaves conexion as it was
conectar(c, ok) ==
    IF ok THEN [c EXCEPT !.n = @ + 1, !.conexion = c.n + 1,
                         !.connected = @ \cup {c.n + 1}]
    ELSE c

\* a disconnect that closes nothing
desconectar_noop(c) == c

\* ConexionSybase.desconectar
desconectar(c) ==
    IF c.conexion # 0 /\ c.conexion \in c.connected
    THEN [c EXCEPT !.connected = @ \ {c.conexion}]
    ELSE c

\* conexion.cursor() works on an open connection; on None and on a closed
\* connection it raises
cursor_ok(c) == c.conexion # 0 /\ c.conexion \in c.connected

\* the classes "except Exception" catches, among those the body raises
ExceptionClasses == {"AttributeError", "ProgrammingError", "DatabaseError"}

\* the try / except Exception / finally of query and of execute: exc is the
\* exception of the body ("" for none), a caught one gives the result of the
\* failure, another one leaves the call
DbaCall(op, conn_ok, sql_ok, rows, rc) ==
    LET c1 == conectar(dba, conn_ok)
        exc == IF c1.conexion = 0 THEN "AttributeError"
               ELSE IF ~cursor_ok(c1) THEN "ProgrammingError"
               ELSE IF ~sql_ok THEN "DatabaseError"
               ELSE ""
        done == exc = ""
        c2 == desconectar(c1)
    IN /\ dba.calls < MaxDbaCalls
       /\ dba' = [c2 EXCEPT !.calls = @ + 1,
                      !.last = [op |-> op,
                                path |-> IF ~conn_ok THEN "connect_failed"
                                         ELSE IF ~sql_ok THEN "sql_error"
                                         ELSE "success",
                                own |-> IF conn_ok THEN c1.conexion ELSE 0,
                                rows |-> IF done /\ op = "query" THEN rows ELSE <<>>,
                                rc |-> IF done /\ op = "execute" THEN rc ELSE 0,
                                exc |-> exc,
                                raised |-> exc \notin {""} \cup ExceptionClasses]]
       /\ UNCHANGED <<drvVars, mt, fleetVars, plu, db, repo, jrepo, tcp, fn>>

\* DBAService.query
Query ==
    \E conn_ok \in BOOLEAN, sql_ok \in BOOLEAN, rows \in {<<>>, <<1>>, <<1, 2>>} :
        DbaCall("query", conn_ok, sql_ok, rows, 0)

\* DBAService.execute
Execute ==
    \E conn_ok \in BOOLEAN, sql_ok \in BOOLEAN, rc \in 0..2 :
        DbaCall("execute", conn_ok, sql_ok, <<>>, rc)


\* ---------------------------------------------------------------------------
\* The protocol helpers: checksums, padding, the 2003 frame builders
\* ---------------------------------------------------------------------------
MaxPayload == 3

\* sum(payload)
RECURSIVE Sum(_)
Sum(s) == IF s = <<>> THEN 0 ELSE Head(s) + Sum(Tail(s))

\* a checksum that splits the whole sum, not its low byte
checksum_bytes_nomask(payload) ==
    LET total == Sum(payload) IN <<(total \div 16) + 48, (total % 16) + 48>>
\* envios_balanzas._checksum_bytes: b = total & 0xFF, hi = (b >> 4) & 0x0F,
\* lo = b & 0x0F, bytes([hi + 0x30, lo + 0x30]); the first lo, hi are dead
checksum_bytes(payload) ==
    LET total == Sum(payload)
        b == total % 256
        hi == (b \div 16) % 16
        lo == b % 16
    IN  <<hi + 48, lo + 48>>
\* kretz_driver._checksum_bytes
tcp_checksum_bytes(payload) ==
    LET total == Sum(payload)
        b == total % 256
        hi == (b \div 16) % 16
        lo == b % 16
    IN  <<hi + 48, lo + 48>>

\* the bytes a body is made of, and the payloads STX + body
BodyBytes == {0, 48, 67, 127, 233, 255}
Payloads == {<<STX>> \o b : b \in UNION {[1..n -> BodyBytes] : n \in 0..MaxPayload}}

NoFn ==
    [op |-> "", payload |-> <<>>, codigo |-> <<>>, nombre |-> <<>>, width |-> 0,
     price |-> [kind |-> "bad", neg |-> FALSE, whole |-> 0, frac |-> 0],
     cref |-> <<>>, ccodebar |-> <<>>, out |-> <<>>, out2 |-> <<>>, out3 |-> <<>>]
FnFrame == UNCHANGED <<drvVars, mt, fleetVars, plu, db, repo, jrepo, tcp, dba>>

\* one call of each checksum routine on the same payload
ChecksumBytes ==
    /\ fn.op = ""
    /\ \E payload \in Payloads :
         fn' = [NoFn EXCEPT !.op = "checksum", !.payload = payload,
                            !.out = checksum_bytes(payload),
                            !.out2 = tcp_checksum_bytes(payload)]
    /\ FnFrame


\* ord(c) of the characters the inputs are written with; the euro sign is
\* outside latin-1
Ord(c) ==
    CASE IsDigit(c) -> 48 + DigitVal(c)
      [] c = " " -> 32 [] c = "-" -> 45 [] c = ":" -> 58 [] c = "A" -> 65
      [] c = "C" -> 67 [] c = "P" -> 80 [] c = "a" -> 97 [] c = "d" -> 100
      [] c = "e" -> 101 [] c = "n" -> 110 [] c = "r" -> 114 [] c = "x" -> 120
      [] c = "í" -> 237 [] c = "€" -> 8364
IsAscii(c) == Ord(c) < 128
IsLatin1(c) == Ord(c) < 256
\* s.encode("ascii", errors="ignore"), s.encode("latin1", "ignore")
encode_ascii(s) == LET t == SelectSeq(s, IsAscii) IN [i \in 1..Len(t) |-> Ord(t[i])]
encode_latin1(s) == LET t == SelectSeq(s, IsLatin1) IN [i \in 1..Len(t) |-> Ord(t[i])]

\* envios_balanzas.pad_num: the digits, right-justified, cut to the FIRST
\* width characters
envios_pad_num(valor, width) == First(Rjust(digits(valor), width, "0"), width)
\* envios_balanzas.pad_str: latin-1 characters only, left-justified and cut
pad_str(valor, width) == First(Ljust(SelectSeq(valor, IsLatin1), width, " "), width)
\* envios_balanzas._build_body and build_frame, equipo_id at its default "01"
build_body(cmd, data) == encode_ascii(<<"C", "0", "1">> \o cmd \o data)
build_frame(cmd, data) ==
    LET base == <<STX>> \o build_body(cmd, data)
    IN  base \o checksum_bytes(base) \o <<ETX>>
\* envios_balanzas.cmd_departamento
cmd_departamento(codigo_3, nombre_16) ==
    build_frame(<<"2", "0", "0", "3">>, envios_pad_num(codigo_3, 3) \o pad_str(nombre_16, 16))

\* kretz_driver._pad_num: the digits, their last n, right-justified (n > 0)
tcp_pad_num(val, n) == Rjust(Last(digits(val), n), n, "0")
\* kretz_driver._pad_str: stripped, cut and padded to n characters, and only
\* then encoded, the characters outside latin-1 dropped
tcp_pad_str(val, n) == encode_latin1(Ljust(First(Strip(val), n), n, " "))
\* kretz_driver.build_frame, canal at its default "C03"
tcp_build_frame(cmd, payload) ==
    LET body == encode_ascii(<<"C", "0", "3">> \o cmd) \o payload
    IN  <<STX>> \o body \o tcp_checksum_bytes(<<STX>> \o body) \o <<ETX>>
RECURSIVE SkipWhile(_, _)
SkipWhile(s, cs) == IF s # <<>> /\ Head(s) \in cs THEN SkipWhile(Tail(s), cs) ELSE s
StartsWith(s, lit) == Len(s) >= Len(lit) /\ SubSeq(s, 1, Len(lit)) = lit
\* re.sub(r"^\s*0*LIT\s*[-:]\s*", "", n) when zeros, without the 0* otherwise
sub_prefix(n, lit, zeros) ==
    LET a == SkipWhile(n, {" "})
        z == IF zeros THEN SkipWhile(a, {"0"}) ELSE a
        zero_lit == zeros /\ lit = <<"0">>
        hit == IF zero_lit THEN z # a ELSE StartsWith(z, lit)
        b == SkipWhile(IF zero_lit THEN z ELSE SubSeq(z, Len(lit) + 1, Len(z)), {" "})
    IN  IF hit /\ b # <<>> /\ Head(b) \in {"-", ":"} THEN SkipWhile(Tail(b), {" "}) ELSE n
\* kretz_driver._sanitize_depto_nombre
sanitize_depto_nombre(nombre, codigo3) ==
    LET n == Strip(nombre)
        c == Strip(codigo3)
        c_no0 == IF SkipWhile(c, {"0"}) = <<>> THEN <<"0">> ELSE SkipWhile(c, {"0"})
    IN  First(sub_prefix(sub_prefix(n, c_no0, TRUE), c, FALSE), 16)
\* kretz_driver.cmd_departamento
tcp_cmd_departamento(codigo, nombre) ==
    LET c3 == tcp_pad_num(codigo, 3)
        nom == sanitize_depto_nombre(nombre, c3)
    IN  tcp_build_frame(<<"2", "0", "0", "3">>,
                        encode_ascii(tcp_pad_num(c3, 3)) \o tcp_pad_str(nom, 16))

\* the data segment of a frame: what lies between the 8 bytes STX, channel,
\* command and the 3 bytes checksum, ETX
data_of(frame) == SubSeq(frame, 9, Len(frame) - 3)

\* the codes and names the 2003 frames are built from
DeptoCodigos == {<<"1">>, <<"0", "0", "5">>, <<"1", "0", "0", "5">>, <<>>}
DeptoNombres ==
    {<<"P", "a", "n", "a", "d", "e", "r", "í", "a">>, Rep("x", 17), <<>>,
     <<"1", " ", "-", " ", "P", "a", "n">>, <<"€", "x">>, <<" ", "A", " ">>}
\* one 2003 frame from each builder for the same department
CmdDepartamento ==
    /\ fn.op = ""
    /\ \E codigo \in DeptoCodigos, nombre \in DeptoNombres :
         fn' = [NoFn EXCEPT !.op = "depto", !.codigo = codigo, !.nombre = nombre,
                            !.out = cmd_departamento(codigo, nombre),
                            !.out2 = tcp_cmd_departamento(codigo, nombre)]
    /\ FnFrame

\* KretzTCP.ping: the frame it builds itself, 0001 with beep, else 0002
ping_frame(beep) ==
    LET cmd == IF beep THEN <<48, 48, 48, 49>> ELSE <<48, 48, 48, 50>>
        body == <<67, 48, 49>> \o cmd
    IN  <<STX>> \o body \o tcp_checksum_bytes(<<STX>> \o body) \o <<ETX>>
\* the commands and the ASCII data the frame builders are called with
FrameCmds == {<<"0", "0", "0", "2">>, <<"2", "0", "0", "3">>, <<"4", "0", "0", "3">>}
FrameDatas == {<<>>, <<"0", "0", "5">>, <<"0", "0", "5", "P", "a", "n">>, <<"A", " ">>}
\* one frame from each builder for the same command and data, the device
\* identifier left at its default, and one ping frame
BuildFrame ==
    /\ fn.op = ""
    /\ \E cmd \in FrameCmds, data \in FrameDatas, beep \in BOOLEAN :
         fn' = [NoFn EXCEPT !.op = "frame", !.codigo = cmd, !.nombre = data,
                            !.out = build_frame(cmd, data),
                            !.out2 = tcp_build_frame(cmd, encode_ascii(data)),
                            !.out3 = ping_frame(beep)]
    /\ FnFrame

MaxWidth == 3
\* the values and widths the numeric padding helpers are called with
PadValues ==
    {<<"5">>, <<"0", "0", "5">>, <<"1", "0", "0", "5">>, <<"A", "5">>,
     <<"1", "-", "5">>, <<" ", "5", " ">>, <<>>}
\* one call of each numeric padding helper on the same value and width
PadNum ==
    /\ fn.op = ""
    /\ \E value \in PadValues, width \in 1..MaxWidth :
         fn' = [NoFn EXCEPT !.op = "pad_num", !.codigo = value, !.width = width,
                            !.out = envios_pad_num(value, width),
                            !.out2 = tcp_pad_num(value, width),
                            !.out3 = pad_num(value, width)]
    /\ FnFrame


\* the widths _price_to_width is called with: field 9 of MODEL_2005_PLU, and
\* the 7 digits of the default layout
PriceWidths == {MODEL_2005_PLU[9], 7}
\* one call of _price_to_width
PriceToWidth ==
    /\ fn.op = ""
    /\ \E v \in Prices, w \in PriceWidths :
         fn' = [NoFn EXCEPT !.op = "price", !.price = v, !.width = w,
                            !.out = price_to_width(v, w)]
    /\ FnFrame

\* ArticulosBalanzaDAO._only_digits, _plu4_from_cref_barcode; <<>> stands for ""
only_digits(s) == SelectSeq(s, IsDigit)
plu4_from_cref_barcode(cref, codebar) ==
    LET cref_digits == only_digits(cref)
        cb == only_digits(codebar)
    IN  IF Len(cref_digits) = 4 THEN cref_digits
        ELSE IF Len(cb) >= 6 THEN SubSeq(cb, 3, 6)
        ELSE <<>>
\* listar_para_deptos: the PLU6 attached to a row
listar_plu6(r) ==
    LET plu4 == plu4_from_cref_barcode(r.CREF, r.CCODEBAR)
    IN  IF plu4 # <<>> THEN Rjust(plu4, 6, "0") ELSE <<>>

\* the reference codes and barcodes of the article rows
RowCrefs == Crefs \cup {<<"1", "0", "-", "1", "7">>, <<>>}
RowCodebars == Ccodebars \cup {<<"2", "0", "-", "1", "0", "1", "7", "0", "0">>, <<>>}
\* one row read by the DAO and then handed to the adapter
RowPlu6 ==
    /\ fn.op = ""
    /\ \E cref \in RowCrefs, ccb \in RowCodebars :
         LET r == [CREF |-> cref, CCODEBAR |-> ccb] IN
           fn' = [NoFn EXCEPT !.op = "plu6", !.cref = cref, !.ccodebar = ccb,
                              !.out = coerce_plu6(r), !.out2 = listar_plu6(r)]
    /\ FnFrame


\* the parts of the state a specification leaves idle
RestIdle ==
    /\ plu = NoPlu
    /\ db = NoDb
    /\ repo = NoRepo
    /\ jrepo = NoJRepo
    /\ tcp = NoTcp
    /\ dba = NoDba
    /\ fn = NoFn

\* ------------------------------------------------------ specifications
PeerA == <<"10.0.0.5", 1001>>
PeerB == <<"10.0.0.6", 1001>>
PeerA2 == <<"10.0.0.5", 1002>>
SendArg(lines, wait, retry, timeout) ==
    [eq |-> PeerA, lines |-> lines, wait |-> wait, retry |-> retry,
     timeout |-> timeout, onp |-> TRUE]
\* the calls of a run: batches of no, one and two codes; with and without
\* wait_for_ext and allow_retry; timeouts of 0.2 s and 2.2 s, below and above
\* the 2 s floor of the acknowledgment poll
SendArgs ==
    {SendArg(<<>>, TRUE, TRUE, 4),
     SendArg(<<LineDep, LinePlu>>, TRUE, TRUE, 4),
     SendArg(<<LineDep, LineDep>>, TRUE, FALSE, 4),
     SendArg(<<LineDep>>, TRUE, FALSE, 44),
     SendArg(<<LineDep, LinePlu>>, FALSE, TRUE, 4)}
\* a run starts fresh, or after an earlier _send: one that wrote INFO.JDG
\* at 1.0 s and left an acknowledgment in EXT.JDG (now 2.6 s), or one whose
\* retry resent the batch at 3.2 s, in the second of its wake line, which
\* pushed the modification time of INFO.JDG to 4.1 s, and was acknowledged
\* at once (now 3.25 s)
SendPriors ==
    {FreshAt(52), UsedAt(PeerA, 52, 20, <<MkLine("C", "2003", 9)>>),
     UsedAt(PeerA, 65, 82, <<MkLine("C", "2005", 9)>>)}

SendStep(t) ==
    \/ SendGetLookup(t) \/ SendGetCreate(t) \/ SendLock(t) \/ SendStop(t)
    \/ SendConf(t) \/ SendCom(t) \/ SendExtClear(t) \/ SendEnsureInfo(t)
    \/ SendMtimeRead(t) \/ SendMtimeWait(t) \/ SendWrite(t) \/ SendStart(t)
    \/ SendSize(t)
    \/ SendGrowth(t) \/ SendPollStart(t) \/ SendPoll(t) \/ SendAcks(t)
    \/ SendUnlock(t)
SendRetryStep(t) ==
    \/ SendRetryWake(t) \/ SendRetryClear(t) \/ SendRetryWrite(t) \/ SendRetryWait(t)

vars == <<drvVars, mt, fleetVars, restVars>>

MtIdle == mt = NoMt
Init == DrvInit({"exe_dir"}, SendPriors) /\ MtIdle /\ RestIdle /\ FleetIdle
Next ==
    \/ SendCall(1, SendArgs)
    \/ SendStep(1)
    \/ SendRetryStep(1)
    \/ DriverAck
Spec == Init /\ [][Next]_vars

\* One call with the short timeout, on a fresh pool or after a retried send. The thread of the call keeps running; nothing is assumed of
\* the driver.
FairArgs == {a \in SendArgs : a.retry /\ a.lines # <<>>}
FairInit ==
    /\ DrvInit({"exe_dir"}, {FreshAt(52), UsedAt(PeerA, 65, 82, <<MkLine("C", "2005", 9)>>)})
    /\ MtIdle /\ RestIdle
    /\ FleetIdle
FairNext ==
    \/ SendCall(1, FairArgs)
    \/ SendStep(1)
    \/ SendRetryStep(1)
    \/ DriverAck
FairSpec == FairInit /\ [][FairNext]_vars /\ WF_vars(SendStep(1) \/ SendRetryStep(1))

\* the threads call _send for one peer at once, without waiting for
\* acknowledgments
SendQuickStep(t) ==
    \/ SendGetLookup(t) \/ SendGetCreate(t) \/ SendLock(t) \/ SendStop(t)
    \/ SendConf(t) \/ SendCom(t) \/ SendExtClear(t) \/ SendEnsureInfo(t)
    \/ SendMtimeRead(t) \/ SendMtimeWait(t) \/ SendWrite(t) \/ SendStart(t)
    \/ SendSize(t)
    \/ SendPollStart(t) \/ SendPoll(t) \/ SendAcks(t) \/ SendUnlock(t)
QuickArgs(peers) ==
    {[eq |-> p, lines |-> <<LineDep>>, wait |-> FALSE, retry |-> FALSE,
      timeout |-> 4, onp |-> TRUE] : p \in peers}
ConcInit == DrvInit(Modes, {FreshAt(TicksPerSec - 2)}) /\ MtIdle /\ RestIdle /\ FleetIdle
ConcNext ==
    \E t \in Threads :
      \/ SendCall(t, QuickArgs({PeerA}))
      \/ SendQuickStep(t)
SpecConc == ConcInit /\ [][ConcNext]_vars

\* one caller mixes pool.get, apply_peer and _send over three peers, two of
\* them at one address
PeerInit == DrvInit(Modes, {FreshAt(0)}) /\ MtIdle /\ RestIdle /\ FleetIdle
PeerNext ==
    \/ PoolGet(1, {PeerA, PeerA2, PeerB})
    \/ ApplyPeer(1, {PeerA, PeerA2, PeerB})
    \/ SendCall(1, QuickArgs({PeerA, PeerA2, PeerB}))
    \/ SendQuickStep(1)
    \/ SendReturn(1)
    \/ DriverExit
SpecPeer == PeerInit /\ [][PeerNext]_vars

\* one caller asks the pool for instances: get as it is (PoolGet), get with
\* no_touch from leer_log_driver and from _send, while drivers may exit
AllPeers == {PeerA, PeerA2, PeerB}
PoolInit == DrvInit(Modes, {FreshAt(0)}) /\ MtIdle /\ RestIdle /\ FleetIdle
PoolNext ==
    \/ PoolGet(1, AllPeers)
    \/ LeerLogGet(1, AllPeers)
    \/ LeerLogRead(1)
    \/ SendCall(1, QuickArgs(AllPeers))
    \/ SendQuickStep(1)
    \/ SendReturn(1)
    \/ DriverExit
SpecPool == PoolInit /\ [][PoolNext]_vars

\* the adapter builds 2005 records from article rows and operator entries
PluInit == DrvInit({"exe_dir"}, {FreshAt(0)}) /\ MtIdle /\ RestIdle /\ FleetIdle
PluNext == EnviarPlus \/ EnviarDptosYArticulos \/ AltaPlu
SpecPlu == PluInit /\ [][PluNext]_vars

\* the repository facade, called at any times with any arguments
DbInit ==
    /\ DrvInit({"exe_dir"}, {FreshAt(0)}) /\ MtIdle /\ FleetIdle
    /\ plu = NoPlu /\ tcp = NoTcp /\ dba = NoDba /\ fn = NoFn
    /\ db = Db0 /\ repo = WithCache(refresh(Db0), 0, NoLast)
    /\ jrepo = JRepo0
DbNext ==
    \/ AddDepto \/ UpdateDepto \/ DeleteDepto
    \/ AddEquipo \/ UpdateEquipo \/ DeleteEquipo
    \/ JsonAddDepto \/ JsonUpdateDepto \/ JsonDeleteDepto
SpecDb == DbInit /\ [][DbNext]_vars

\* one KretzTCP client: send_many, ping, and the checks made on answers
TcpInit ==
    /\ DrvInit({"exe_dir"}, {FreshAt(0)}) /\ MtIdle /\ RestIdle /\ FleetIdle
TcpNext ==
    \/ SendManyEnter \/ SendManySend \/ SendManyRaise \/ SendManyExit
    \/ DeptoCheck \/ Ping \/ ArticuloSend \/ AckParse \/ StatusParse
SpecTcp == TcpInit /\ [][TcpNext]_vars

\* one DBAService, called at any times, with a database that may refuse
DbaInit ==
    /\ DrvInit({"exe_dir"}, {FreshAt(0)}) /\ MtIdle /\ RestIdle /\ FleetIdle
DbaNext == Query \/ Execute
SpecDba == DbaInit /\ [][DbaNext]_vars

\* the protocol helpers, each called once on inputs drawn from its input set
FnInit == DrvInit({"exe_dir"}, {FreshAt(0)}) /\ MtIdle /\ RestIdle /\ FleetIdle
FnNext ==
    \/ ChecksumBytes \/ CmdDepartamento \/ PadNum \/ PriceToWidth \/ RowPlu6
    \/ BuildFrame
SpecFn == FnInit /\ [][FnNext]_vars

\* send_info_lines called at any times, INFO.JDG there or not at the first call
MtimeInit ==
    /\ DrvInit({"exe_dir"},
               {BareAt(PeerA, 0), BareAt(PeerA, TicksPerSec - 1),
                UsedAt(PeerA, 12, 0, <<>>), UsedAt(PeerA, 12, MtimePush, <<>>)})
    /\ MtIdle /\ RestIdle
    /\ FleetIdle
MtimeNext == InfoWrite \/ Tick
SpecMtime == MtimeInit /\ [][MtimeNext]_vars

\* one invocation of a fleet-wide workflow
FleetInit0 ==
    /\ DrvInit({"exe_dir"}, {FreshAt(0)})
    /\ MtIdle /\ RestIdle
    /\ FleetInit
FleetNext ==
    \/ UiVaciar \/ UiRestaurarModelo \/ UiAlta \/ ShellEnviar \/ SvcEnviar
    \/ AdapterTurn \/ ShellTurn \/ ComboTurn \/ SvcDeptosTurn \/ SvcArticulosTurn
    \/ FlowEnds
SpecFleet == FleetInit0 /\ [][FleetNext]_vars

\* connectivity tests and equipment edits, then one workflow over the
\* equipment that answered the test
FlotaInit ==
    /\ DrvInit({"exe_dir"}, {FreshAt(0)})
    /\ MtIdle /\ RestIdle /\ FleetIdle
FlotaNext ==
    \/ TestearConexiones \/ EquipoUpdate \/ EquipoDelete
    \/ UiVaciar \/ UiAlta \/ UiMoneda
    \/ AdapterTurn \/ MonedaTurn
    \/ FlowEnds
SpecFlota == FlotaInit /\ [][FlotaNext]_vars

\* ------------------------------------------------------------ properties
IsPrefix(a, b) == Len(a) <= Len(b) /\ \A i \in 1..Len(a) : a[i] = b[i]
LastOf(seq) == IF seq = <<>> THEN "" ELSE seq[Len(seq)]
Has(seq, x) == \E i \in 1..Len(seq) : seq[i] = x

SendOrder == <<"stop", "conf", "com", "ext_clear", "ensure_info", "info", "start", "wait">>
RetryOrder == <<"info_wake", "ext_clear_retry", "info_retry", "wait_retry">>

\* C1: within one _send call the file and process actions happen in the order
\* stop, CONF.JDG, COM.JDG, EXT.JDG cleared, INFO.JDG ensured, batch written
\* to INFO.JDG, process started, wait for acknowledgments; no later step
\* occurs before an earlier one (the retry's actions come after all of them).
C1_StrictOrder ==
    \A t \in Threads :
      /\ IsPrefix(Me(t).trace, SendOrder \o RetryOrder)
      /\ Me(t).pc \in {"growth", "poll", "retry4"} =>
            /\ IsPrefix(<<"stop", "conf", "com", "ext_clear", "ensure_info", "info", "start">>,
                        Me(t).trace)
            /\ inst[Me(t).inst].proc # 0
            /\ fcom[inst[Me(t).inst].key] = Me(t).arg.eq
            /\ finfo[inst[Me(t).inst].key].lines = Me(t).arg.lines
C1_Waiting ==
    /\ Me(1).pc = "poll"
    /\ Me(1).trace = SendOrder
    /\ finfo[inst[Me(1).inst].key].lines = <<LineDep, LinePlu>>
    /\ fcom[inst[Me(1).inst].key] = PeerA

\* the per-code number of lines of a file that carry a code
CodeCount(lines, c) ==
    Cardinality({i \in 1..Len(lines) : CarriesCmd(lines[i]) /\ lines[i].cmd = c})
BatchCodes(t) == {Me(t).arg.lines[i].cmd : i \in 1..Len(Me(t).arg.lines)}

\* C3: the acknowledgment poll of a waiting call ends before its deadline
\* only when every code of the batch has at least as many EXT.JDG lines as
\* batch lines; the "acks" event reports need = the batch's count per code
\* and got = the count per code of the EXT.JDG lines read.
C3_PollEnd ==
    \A t \in Threads :
      /\ (Me(t).pc = "acks" /\ Me(t).arg.wait /\ now < Me(t).t_end) =>
            \A c \in BatchCodes(t) :
              CodeCount(Me(t).resp, c) >= CodeCount(Me(t).arg.lines, c)
      /\ LastOf(Me(t).events) = "acks" =>
            /\ \A c \in Cmds : Me(t).acks.need[c] = CodeCount(Me(t).arg.lines, c)
            /\ \A c \in BatchCodes(t) : Me(t).acks.got[c] = CodeCount(Me(t).resp, c)
C3_Deficit ==
    /\ LastOf(Me(1).events) = "acks"
    /\ Me(1).acks.need["2003"] = 2
    /\ Me(1).acks.got["2003"] = 1
    /\ ~Me(1).arg.retry
    /\ Me(1).acks.at >= Me(1).t_end

\* the waits of _send: for a new second of INFO.JDG, for EXT.JDG to grow
\* (first send and retry), and the acknowledgment poll
InWait(t) == Me(t).pc \in {"mtwait", "growth", "poll", "retry4"}
WaitedWithin(limit) == \A t \in Threads : InWait(t) => now - Me(t).w0 <= limit + Sleep01

C5_Bound ==
    /\ WaitedWithin(Max(Me(1).arg.timeout, MinPollTicks))
    /\ Me(1).pc = "done" =>
          /\ Has(Me(1).events, "acks")
          /\ IsPrefix(Me(1).resp, fext[inst[Me(1).inst].key].lines)
          /\ (Me(1).arg.wait /\ Me(1).acks.at < Me(1).t_end) =>
                ~Short(Me(1).acks.got, Me(1).acks.need)
InFlight(t) == Me(t).pc \notin {"idle", "get", "create", "lock", "done"}

\* C2: the file writes of a _send call never interleave with the in-flight
\* sequence of another call to the same peer (the same working directory),
\* also when both calls are the first use of the peer in the pool.
C2_Serialized ==
    \A t1, t2 \in Threads :
      (t1 # t2 /\ InFlight(t1) /\ InFlight(t2)) =>
        inst[Me(t1).inst].key # inst[Me(t2).inst].key

\* C4: whenever COM.JDG is rewritten with a peer different from the one it
\* held, the instance's driver process is not running at that write.
C4_StoppedBeforePeerChange == comlog.changed => ~comlog.running

\* C6: after each send_info_lines call the whole-second value of INFO.JDG's
\* modification time is strictly greater than it was before the call.
C6_NewSecond == (mt.n > 0 /\ mt.had) => IntSec(mt.after) > IntSec(mt.before)
C6_Collision ==
    /\ mt.n > 0
    /\ mt.had
    /\ IntSec(mt.at) = IntSec(mt.before)
    /\ mt.after = IntSec(mt.before) * TicksPerSec + MtimePush

SameSecondCalls == mt.n >= 2 /\ IntSec(mt.at) = IntSec(mt.prev_at)
ConfirmFlows == WipeFlows \cup {"ui_restaurar_modelo"}
\* C8: in the wipe-departments, wipe-PLUs and restore-model workflows no
\* connectivity test is run and nothing is sent unless the operator answered
\* yes to the confirmation dialog of the invocation.
C8_ConfirmedFirst ==
    (wf.name \in ConfirmFlows /\ ~wf.answer) =>
      /\ probes = {}
      /\ sends = <<>>
      /\ seen = {}
      /\ wf.state = "done"
C8_Declined ==
    /\ wf.name \in WipeFlows
    /\ ~wf.answer
    /\ wf.state = "done"
    /\ equipos_ok = <<>>
    /\ sends = <<>>

FleetSends == ShellFlows \cup WipeFlows \cup AltaFlows \cup SvcFlows
\* C9: in every fleet-wide send a failure on one equipment is caught and
\* reported for that equipment, and every remaining equipment is processed.
C9_EveryEquipmentProcessed ==
    (wf.name \in FleetSends /\ wf.answer /\ wf.state \in {"done", "raised"}) =>
      /\ wf.state = "done"
      /\ \A i \in 1..Len(wf.list) : wf.list[i] \in seen
      /\ \A e \in failed : \E r \in reports : r.eq = e /\ r.ev \in {"error", "depto_error", "plu_error"}

SendsTo(e) == SelectSeq(sends, LAMBDA x : x.eq = e)
DeptosFirst(lines) ==
    \A i, j \in 1..Len(lines) : (lines[i].cmd = "2005" /\ lines[j].cmd = "2003") => j < i
\* C10: for each equipment the combined-send workflow processes, the adapter
\* sends, in this order, a 1070 line, a 2026 line (currency 02, price
\* decimals 1, weight decimals 3), a 1010 line (currency 02), and one batch
\* whose 2003 lines all precede its 2005 lines; a send that raises ends the
\* sequence for that equipment.
C10_ComboOrder ==
    wf.name = "enviar_dptos_y_articulos_balanzas" =>
      \A e \in Eqs :
        LET q == SendsTo(e) IN
          /\ Len(q) <= 4
          /\ Len(q) >= 1 => q[1].lines = <<InfoLine("1070", <<2, 0, 0, 2, 0, 0, 1>>)>>
          /\ Len(q) >= 2 => q[2].lines = <<InfoLine("2026", <<0, 2, 1, 3>>)>>
          /\ Len(q) >= 3 => q[3].lines = <<InfoLine("1010", <<0, 2>>)>>
          /\ Len(q) = 4 =>
               /\ DeptosFirst(q[4].lines)
               /\ \A i \in 1..Len(q[4].lines) : q[4].lines[i].cmd \in {"2003", "2005"}
               /\ q[4].lines[1].cmd = "2003"
          /\ [eq |-> e, ev |-> "info"] \in reports => Len(q) = 4
          /\ [eq |-> e, ev |-> "error"] \in reports => Len(q) < 4
C10_Complete ==
    /\ wf.name = "enviar_dptos_y_articulos_balanzas"
    /\ wf.state = "done"
    /\ \E e \in Eqs :
         /\ Len(SendsTo(e)) = 4
         /\ Len(SendsTo(e)[4].lines) = 3
         /\ SendsTo(e)[4].lines[3].cmd = "2005"

\* the 2005 records of the last adapter call were built from derivable items
\* by _build_datos_2005_modelo and passed the length check
Builder135 ==
    plu.op \in {"enviar_plus", "enviar_dptos_y_articulos"} =>
      /\ \A i \in 1..Len(plu.datos) : Len(plu.datos[i]) = MODEL_2005_TOTAL
      /\ Len(plu.datos) + plu.skips = Len(plu.items)
      /\ \A i \in 1..Len(plu.items) :
           (Derivable(plu.items[i]) /\ plu.fam \in 0..999) =>
             Len(build_datos_2005_modelo(plu.items[i], plu.fam, 1)) = MODEL_2005_TOTAL
\* C11: every 2005 record the adapter writes to INFO.JDG, through
\* enviar_plus, enviar_dptos_y_articulos or alta_plu, has a data segment of
\* exactly 135 characters.
C11_Every2005Is135 ==
    \A i \in 1..Len(plu.datos) : Len(plu.datos[i]) = MODEL_2005_TOTAL

\* C12: after every mutating operation of RepoSybase, whether it returned or
\* raised, departamentos and equipos equal what _refresh would read from the
\* tables at that moment.
C12_CacheEqualsRefresh == Cache(repo) = refresh(db)

\* C13: a call that ran reemplazar_relaciones(eid, cods) leaves eid with
\* exactly the relations to the codes of cods that are in GRP_VENT, leaves
\* the relations of every other equipment as they were, and got back the
\* codes of cods that are not in GRP_VENT; add_equipo / update_equipo raised
\* exactly when that list is not empty, the valid relations staying stored.
C13_ReplaceRelations ==
    [][(repo'.n = repo.n + 1 /\ repo'.last.rr) =>
        LET l == repo'.last
            master == {r.codigo : r \in db'.grp}
        IN /\ {r \in db'.rel : r[1] = l.eid}
                  = {<<l.eid, c>> : c \in Range(l.cods) \cap master}
           /\ {r \in db'.rel : r[1] # l.eid} = {r \in db.rel : r[1] # l.eid}
           /\ l.invalidos = SelectSeq(l.cods, LAMBDA c : c \notin master)
           /\ (l.raised = "ValueError") = (l.invalidos # <<>>)]_vars

\* add_equipo raised for the unknown code 999 of <<5, 999>>, the equipment it
\* inserted has the relation to 5, and had another one before
C13_Witness ==
    /\ repo.last.rr /\ repo.last.raised = "ValueError"
    /\ repo.last.cods = <<5, 999>> /\ repo.last.invalidos = <<999>>
    /\ {r \in db.rel : r[1] = repo.last.eid} = {<<repo.last.eid, 5>>}
    /\ \E r \in db.rel : r[1] # repo.last.eid

\* C14: RepoSybase.delete_depto of a code that some equipment has a relation
\* to raises the in-use error and issues no DELETE on GRP_VENT.
C14_DeleteDeptoGuard ==
    (/\ repo.last.op = "delete_depto"
     /\ \E r \in db.rel : r[2] = repo.last.codigo)
        => (repo.last.raised = "ValueError" /\ ~repo.last.del)

\* no two rows of a department list have the same code
Distinct(deps) ==
    \A i, j \in DOMAIN deps : deps[i].codigo = deps[j].codigo => i = j

\* C15: add_depto with a code that is already in the list raises and does
\* not attempt the insert, in RepoSybase and in the JSON Repo, and the codes
\* of each list stay pairwise distinct.
C15_DuplicateAddRejected ==
    /\ (repo.last.op = "add_depto" /\ repo.last.existed)
           => (repo.last.raised # "" /\ ~repo.last.ins)
    /\ (jrepo.last.op = "add_depto" /\ jrepo.last.existed)
           => (jrepo.last.raised # "" /\ ~jrepo.last.ins)
    /\ Distinct(repo.departamentos) /\ Distinct(jrepo.departamentos)

\* C16: send_many returns one response per frame, in the order of the
\* frames, over one connection it opened once and closed when it ended; a
\* frame is transmitted at most max_retries + 1 times, again only after a
\* response that does not start with 0x07 and end with 0x04; after the last
\* attempt the bytes last received, possibly none, are what is recorded.
C16_SendMany ==
    /\ tcp.opens <= 1 /\ tcp.closes <= tcp.opens
    /\ tcp.pc \in {"loop", "exit"} => (tcp.sock /\ tcp.opens = 1 /\ tcp.closes = 0)
    /\ tcp.pc \in {"done", "raised"} => (~tcp.sock /\ tcp.opens = 1 /\ tcp.closes = 1)
    /\ tcp.pc = "done" => Len(tcp.resps) = tcp.nframes
    /\ \A k \in DOMAIN tcp.resps : tcp.resps[k].frame = k
    /\ \A k \in DOMAIN tcp.tx : tcp.tx[k] <= tcp.max_retries + 1
    /\ \A r \in tcp.retx : ~(r # <<>> /\ r[1] = 7 /\ r[Len(r)] = 4)
    /\ \A k \in DOMAIN tcp.resps :
           \/ resp_valid(tcp.resps[k].resp)
           \/ tcp.tx[k] = tcp.max_retries + 1
    /\ (tcp.pc \in {"loop", "exit", "done"} /\ tcp.i > 1 /\ tcp.intentos = 0)
           => tcp.resps[tcp.i - 1].resp = tcp.resp

\* send_many returned for two frames with one retry: the first was answered
\* at once, the second twice by nothing, and the empty answer is recorded
C16_Witness ==
    /\ tcp.pc = "done" /\ tcp.nframes = 2 /\ tcp.max_retries = 1
    /\ tcp.tx = <<1, 2>> /\ tcp.retx = {<<>>}
    /\ tcp.resps = <<[frame |-> 1, resp |-> Ack01], [frame |-> 2, resp |-> <<>>]>>

\* C17: every place that decides whether a response is valid accepts it only
\* if it starts with 0x07, ends with 0x04 and has at least 4 bytes;
\* parse_ack_ok accepts only if the code is also "01" or "03".
C17_OneValidityRule ==
    tcp.dec.ok =>
        /\ Len(tcp.dec.resp) >= 4
        /\ tcp.dec.resp[1] = 7 /\ tcp.dec.resp[Len(tcp.dec.resp)] = 4
        /\ tcp.dec.place = "parse_ack_ok" =>
               parse_resp_status(tcp.dec.resp).code \in {<<48, 49>>, <<48, 51>>}

\* C18: every DBAService.query / execute opens a connection of its own and
\* has disconnected it when it returns, on success, on an SQL error and on a
\* failed connect; on a failure query returns [] and execute 0, and neither
\* raises.
C18_OwnConnectionClosed ==
    /\ dba.connected = {}
    /\ ~dba.last.raised
    /\ dba.last.path \in {"success", "sql_error"}
           => (dba.last.own = dba.n /\ dba.last.own = dba.conexion)
    /\ dba.last.path = "connect_failed" => dba.last.own = 0
    /\ dba.last.path \in {"sql_error", "connect_failed"}
           => (dba.last.exc # "" /\ dba.last.rows = <<>> /\ dba.last.rc = 0)

\* an execute whose connect failed while the wrapper still held the closed
\* connection of an earlier call, after two calls that had connected
C18_Witness ==
    /\ dba.last.op = "execute" /\ dba.last.path = "connect_failed"
    /\ dba.conexion = 2 /\ dba.n = 2 /\ dba.calls = 3

\* the caller of thread t holds the instance a get has just returned
JustGot(t) ==
    \/ Me(t).pc \in {"log", "lock"}
    \/ Me(t).pc = "idle" /\ Me(t).inst # 0
PoolKeys == {k \in Keys : by_key[k] # 0}

\* the pool in a state: one instance per key it holds, under the key of its
\* working directory; one key in exe_dir mode, the addresses in ip_subdirs
\* mode; what a get returned is the instance the pool holds for the address
PoolShape ==
    /\ nInst = Cardinality(PoolKeys)
    /\ \A k \in PoolKeys : inst[by_key[k]].key = k
    /\ \A k1, k2 \in PoolKeys : by_key[k1] = by_key[k2] => k1 = k2
    /\ mode = "exe_dir" => (nInst <= 1 /\ PoolKeys \subseteq {"__single__"})
    /\ mode = "ip_subdirs" => PoolKeys \subseteq IPs
    /\ \A t \in Threads : JustGot(t) =>
           /\ KeyOf(Me(t).arg.eq[1]) \in PoolKeys
           /\ by_key[KeyOf(Me(t).arg.eq[1])] = Me(t).inst

\* C19: after any sequence of get calls the pool holds, in exe_dir mode, at
\* most one instance, shared by all peers, in the executable's directory,
\* and in ip_subdirs mode exactly one instance per address asked for; a
\* repeated get for an address returns the same instance: the instance of a
\* key is never replaced, and a key enters the pool only by a get for it.
C19_OneInstancePerKey ==
    /\ []PoolShape
    /\ [][\A k \in Keys :
            /\ by_key[k] # 0 => by_key'[k] = by_key[k]
            /\ (by_key[k] = 0 /\ by_key'[k] # 0) =>
                   \E t \in Threads : JustGot(t)' /\ KeyOf(th'[t].arg.eq[1]) = k]_vars

\* ip_subdirs: the second get, for another port of the address of the first,
\* returned the one instance the pool holds
C19_Witness ==
    /\ mode = "ip_subdirs" /\ nInst = 1 /\ PoolKeys = {"10.0.0.5"}
    /\ JustGot(1) /\ Me(1).calls = 2 /\ Me(1).inst = 1 /\ Me(1).arg.eq = PeerA2

\* a step of get with no_touch = True, or of read_driver_log_tail
NoTouchStep(t) ==
    \/ Me(t).pc = "idle" /\ th'[t].pc = "log"
    \/ Me(t).pc = "log" /\ th'[t].pc = "idle"
    \/ Me(t).pc \in {"get", "create"} /\ th'[t] # th[t]

\* C20: get with no_touch = True, and leer_log_driver / read_driver_log_tail
\* on top of it, write none of CONF.JDG, COM.JDG, INFO.JDG, EXT.JDG and start
\* or stop no driver process, for a new instance and for an existing one.
C20_NoTouch ==
    [][(\E t \in Threads : NoTouchStep(t)) =>
          /\ UNCHANGED <<fconf, fcom, finfo, fext, alive, procDir>>
          /\ \A i \in InstIds : i <= nInst => inst'[i] = inst[i]
          /\ \A i \in InstIds : (nInst < i /\ i <= nInst') => inst'[i].proc = 0]_vars

\* leer_log_driver is between its get and its read, for another port of the
\* address whose instance an earlier get made and started: the process runs
\* on and COM.JDG still names the earlier peer
C20_Witness ==
    /\ mode = "ip_subdirs" /\ Me(1).pc = "log" /\ Me(1).calls = 2
    /\ Me(1).arg.eq = PeerA2 /\ Me(1).inst = 1
    /\ IsRunning(1) /\ fcom["10.0.0.5"] = PeerA

\* C21: for every payload STX + body both checksum routines return the two
\* bytes 0x30 + ((sum mod 256) div 16), 0x30 + ((sum mod 256) mod 16), each in
\* 0x30..0x3F
C21_Checksum ==
    fn.op = "checksum" =>
      LET m == Sum(fn.payload) % 256 IN
        /\ fn.out = <<48 + (m \div 16), 48 + (m % 16)>>
        /\ \A i \in 1..2 : fn.out[i] \in 48..63
        /\ Len(fn.out) = 2
        /\ fn.out2 = fn.out
\* a payload whose sum does not fit a byte has been summed by both routines
C21_Witness ==
    /\ fn.op = "checksum" /\ Sum(fn.payload) > 255 /\ fn.payload[1] = STX
    /\ fn.out = <<48 + 0, 48 + 1>> /\ fn.out2 = fn.out

\* C22: the 2003 frame of either builder carries exactly 19 data bytes, for
\* every code and every name
C22_Data19 ==
    fn.op = "depto" => Len(data_of(fn.out)) = 19 /\ Len(data_of(fn.out2)) = 19

\* C23: every numeric padding helper returns the digits of the value, cut to
\* the rightmost width digits and zero-padded on the left to width characters
C23_PadNum ==
    fn.op = "pad_num" =>
      LET want == Rjust(Last(digits(fn.codigo), fn.width), fn.width, "0") IN
        fn.out = want /\ fn.out2 = want /\ fn.out3 = want

\* the price times 100, as a number
PriceCents(v) ==
    CASE v.kind = "digits" -> v.whole * 100
      [] v.kind = "decimal" -> (IF v.neg THEN 0 - 1 ELSE 1) * (v.whole * 100 + v.frac)
      [] OTHER -> 0
\* C24: _price_to_width(v, w) is min(max(v x 100, 0), 10^w - 1) zero-padded to
\* w digits, for a price written with a decimal part or as a whole number, and
\* w zeros for an unreadable one
C24_PriceToWidth ==
    fn.op = "price" =>
      fn.out = Rjust(StrNat(Min(Max(PriceCents(fn.price), 0), Pow10(fn.width) - 1)),
                     fn.width, "0")

\* C25: the PLU6 the adapter derives for a row is the PLU6 the DAO attached to
\* it, and the item is skipped (no PLU6) exactly when the DAO's rule gives none
C25_SamePlu6 ==
    fn.op = "plu6" => fn.out = fn.out2

\* field k of a 2005 record laid out by MODEL_2005_PLU
RECURSIVE FieldStart(_)
FieldStart(k) == IF k = 1 THEN 1 ELSE FieldStart(k - 1) + MODEL_2005_PLU[k - 1]
Field(d, k) == SubSeq(d, FieldStart(k), FieldStart(k) + MODEL_2005_PLU[k] - 1)
\* the items of a batch whose record was appended
Transmitted(items, fam) ==
    SelectSeq(items, LAMBDA it : LET d == build_datos_2005_modelo(it, fam, 1)
                                  IN  d # <<>> /\ valid_2005_data(d))
\* C26: every 2005 record of the combined send carries the derived PLU6, the
\* 3-digit department, the price in cents as 7 zero-padded digits, and 1 in
\* field 22
C26_RecordFields ==
    plu.op = "enviar_dptos_y_articulos" =>
      LET sent == Transmitted(plu.items, plu.fam) IN
        /\ Len(plu.datos) = Len(sent)
        /\ \A i \in 1..Len(sent) :
             LET d == plu.datos[i]
                 it == sent[i]
             IN  /\ Field(d, 1) = coerce_plu6(it)
                 /\ Field(d, 2) = coerce_dep3(it)
                 /\ Field(d, 9) = Rjust(StrNat(Min(Max(PriceCents(it.NPVP1), 0), Pow10(7) - 1)), 7, "0")
                 /\ IntOf(Field(d, 22)) = 1

\* C27: whenever the next step of a _send call writes INFO.JDG (the batch, the
\* wake line of the retry, the resent batch), the instance's driver process is
\* not running
C27_InfoWrittenStopped ==
    \A t \in Threads :
      Me(t).pc \in {"write", "retry1", "retry3"} => ~IsRunning(Me(t).inst)

\* the on_progress events a thread has reported
Reported(t, e) == \E i \in 1..Len(Me(t).events) : Me(t).events[i] = e
\* C28: the growth wait starts from a baseline of zero bytes, and when
\* EXT.JDG has gained a line between the start of the process and the end of
\* the wait, the 'ext_growth' just reported has ok = true
C28_GrowthFromCleared ==
    \A t \in Threads :
      /\ Me(t).pc = "growth" => Me(t).prev_size = 0
      /\ Me(t).pc = "poll0" /\ Me(t).arg.wait /\ Me(t).gained => Me(t).ok

\* the live driver processes of a working directory
LiveIn(k) == {p \in alive : procDir[p] = k}
\* C29: at most one live driver process per working directory
C29_OneLiveProcess ==
    \A k \in Keys : Cardinality(LiveIn(k)) <= 1

\* the number of times x is in a sequence
RECURSIVE Times(_, _)
Times(q, x) == IF q = <<>> THEN 0 ELSE (IF Head(q) = x THEN 1 ELSE 0) + Times(Tail(q), x)
Tail4(q) == SubSeq(q, Len(q) - 3, Len(q))
RetrySteps == <<"info_wake", "ext_clear_retry", "info_retry", "wait_retry">>
\* C30: a call retries exactly when allow_retry and wait_for_ext are set and a
\* code was short after the first wait; it retries at most once; the retry is
\* the 'retry' event, the wake line alone in INFO.JDG, EXT.JDG cleared, the
\* whole batch rewritten, the growth wait, the recount and 'acks_after_retry'
C30_RetryOnce ==
    \A t \in Threads :
      LET k == inst[Me(t).inst].key
          E == Me(t).events
          T == Me(t).trace
      IN  /\ Times(T, "info_wake") <= 1 /\ Times(E, "retry") <= 1
          /\ Me(t).pc = "retry2" =>
               /\ E[Len(E)] = "retry" /\ E[Len(E) - 1] = "acks"
               /\ finfo[k].lines = <<LineWake>>
          /\ Me(t).pc = "retry3" => T[Len(T)] = "ext_clear_retry" /\ Me(t).prev_size = 0
          /\ Me(t).pc = "retry4" => finfo[k].lines = Me(t).arg.lines
          /\ Me(t).pc \in {"unlock", "done"} =>
               /\ Reported(t, "retry") <=>
                    /\ Me(t).arg.retry /\ Me(t).arg.wait
                    /\ Short(Me(t).acks.got, Me(t).acks.need)
               /\ Reported(t, "retry") =>
                    /\ Len(T) >= 4 /\ Tail4(T) = RetrySteps
                    /\ Len(E) >= 3 /\ SubSeq(E, Len(E) - 2, Len(E)) = <<"acks", "retry", "acks_after_retry">>
                    /\ Me(t).have = HaveOf(Me(t).resp, Me(t).req)
               /\ ~Reported(t, "retry") =>
                    /\ \A i \in 1..4 : Times(T, RetrySteps[i]) = 0
                    /\ ~Reported(t, "acks_after_retry")
\* a call that asked for a retry and was short after its first wait has
\* retried and returned, still short of one code
C30_Witness ==
    /\ Me(1).pc = "unlock" /\ Me(1).arg.retry /\ Me(1).arg.wait
    /\ Short(Me(1).acks.got, Me(1).acks.need)
    /\ Reported(1, "acks_after_retry") /\ Times(Me(1).trace, "info_retry") = 1
    /\ Me(1).have["2003"] = 1 /\ Me(1).have["2005"] = 0

\* C31: when, after a retry, EXT.JDG holds every required acknowledgment
\* while the timeout counted from the resend has not passed, the
\* 'acks_after_retry' reported has got >= need for every code and the call
\* returns those lines
C31_RetryAcksSeen ==
    \A t \in Threads :
      LET k == inst[Me(t).inst].key IN
        /\ Me(t).pc \in {"unlock", "done"} /\ Reported(t, "acks_after_retry")
        /\ now - Me(t).t0 <= Me(t).arg.timeout
        /\ ~Short(HaveOf(fext[k].lines, Me(t).req), Me(t).req)
        => /\ ~Short(Me(t).have, Me(t).req)
           /\ Me(t).resp = fext[k].lines

\* C32: when a _send call for a non-empty batch returns, INFO.JDG holds
\* exactly the lines of that batch, with or without a retry, acknowledged or
\* timed out
C32_InfoKeepsBatch ==
    \A t \in Threads :
      Me(t).pc \in {"unlock", "done"} /\ Me(t).arg.lines # <<>> =>
        LET k == inst[Me(t).inst].key IN
          finfo[k].exists /\ finfo[k].lines = Me(t).arg.lines
\* a call that retried and timed out again is about to return, INFO.JDG
\* holding its two lines and not the wake line
C32_Witness ==
    /\ Me(1).pc = "unlock" /\ Reported(1, "acks_after_retry")
    /\ Short(Me(1).have, Me(1).req) /\ ~Me(1).ok
    /\ finfo[inst[Me(1).inst].key].lines = <<LineDep, LinePlu>>

\* whether every "ext_clear" of a sequence of steps is done with the process
\* not running, the process running or not when the sequence begins
RECURSIVE ClearsStopped(_, _)
ClearsStopped(steps, running) ==
    IF steps = <<>> THEN TRUE
    ELSE LET x == Head(steps) IN
           /\ x = "ext_clear" => ~running
           /\ ClearsStopped(Tail(steps),
                            IF x = "stop" THEN FALSE ELSE IF x = "start" THEN TRUE ELSE running)
\* C33: the controller truncates EXT.JDG only while the instance's driver
\* process is not running: in _send (first clear and the clear of the retry)
\* and in the get that was last made
C33_ClearedWhileStopped ==
    \A t \in Threads :
      /\ Me(t).pc \in {"ext", "retry2"} => ~IsRunning(Me(t).inst)
      /\ Me(t).trace # <<>> /\ Me(t).trace[1] = "get" /\ comlog.by = "get"
           => ClearsStopped(Me(t).trace, comlog.running)

\* C34: add_equipo leaves the department relations of every equipment that
\* existed before the call as they were, also when its insert was rejected
C34_AddKeepsOldRelations ==
    repo.last.op = "add_equipo" /\ repo.last.rr /\ repo.last.existed =>
      RelOf(db, repo.last.eid) = repo.last.rel_before

\* is_running() of instance j after the step
RunsNext(j) == inst'[j].proc # 0 /\ inst'[j].proc \in alive'
\* a step that is one whole apply_peer call of thread t
IsApplyPeer(t) ==
    /\ th'[t].calls = Me(t).calls + 1
    /\ th'[t].trace = <<"apply_peer">>
    /\ th'[t].pc = "idle"
\* C35: apply_peer(ip, port) always leaves (ip, port) in COM.JDG; when the
\* peer differs from the last-applied one the process is not running after
\* the call and the last-applied peer is (ip, port); when it is equal the
\* running state and the last-applied peer are as before; no process is
\* started
C35_ApplyPeer ==
    [][\A t \in Threads : IsApplyPeer(t) =>
         LET i == th'[t].inst
             peer == th'[t].arg.eq
         IN  /\ fcom'[inst[i].key] = peer
             /\ peer # inst[i].peer =>
                  ~RunsNext(i) /\ inst'[i].peer = peer
             /\ peer = inst[i].peer =>
                  RunsNext(i) = IsRunning(i) /\ inst'[i].peer = inst[i].peer
             /\ alive' \subseteq alive
             /\ \A j \in InstIds : RunsNext(j) => IsRunning(j)]_vars
\* an apply_peer has stopped a running process and recorded the new peer
C35_Witness ==
    /\ Me(1).pc = "idle" /\ Me(1).trace = <<"apply_peer">>
    /\ comlog.by = "apply_peer" /\ comlog.running /\ comlog.changed
    /\ inst[Me(1).inst].proc = 0
    /\ inst[Me(1).inst].peer = Me(1).arg.eq
    /\ fcom[inst[Me(1).inst].key] = Me(1).arg.eq
\* an apply_peer with the peer already applied has left a running process alone
C35_WitnessSame ==
    /\ Me(1).pc = "idle" /\ Me(1).trace = <<"apply_peer">>
    /\ comlog.by = "apply_peer" /\ comlog.running /\ ~comlog.changed
    /\ IsRunning(Me(1).inst)

\* a step that is one whole get (without no_touch) of thread t
IsPoolGet(t) ==
    /\ Me(t).pc = "idle" /\ th'[t].pc = "idle"
    /\ th'[t].calls = Me(t).calls + 1
    /\ th'[t].trace # <<>> /\ th'[t].trace[1] = "get"
\* step x comes before the m-th step of T
Earlier(T, x, m) == \E n \in 1..(m - 1) : T[n] = x
\* C36: get without no_touch starts the process of a new instance only after
\* CONF.JDG and COM.JDG are written, EXT.JDG is cleared and INFO.JDG exists;
\* the process of the instance runs when get returns; for an existing exe_dir
\* instance whose peer changed the process is stopped, then started again
C36_GetStartsSafely ==
    [][\A t \in Threads : IsPoolGet(t) =>
         LET i == th'[t].inst
             peer == th'[t].arg.eq
             T == th'[t].trace
             k == KeyOf(peer[1])
             starts == {m \in 1..Len(T) : T[m] = "start"}
         IN  /\ RunsNext(i)
             /\ by_key[k] = 0 =>
                  /\ starts # {}
                  /\ \A m \in starts :
                       \A x \in {"conf", "com", "ext_clear", "ensure_info"} :
                         Earlier(T, x, m)
                  /\ fconf'[k] = "00" /\ fcom'[k] = peer
                  /\ fext'[k] = ExtClear /\ finfo'[k].exists
             /\ by_key[k] # 0 /\ mode = "exe_dir" /\ peer # inst[i].peer =>
                  /\ \E m \in starts : Earlier(T, "stop", m)
                  /\ inst'[i].proc # inst[i].proc]_vars
\* a get on an exe_dir instance with a running process and another peer has
\* stopped the process and started a new one
C36_Witness ==
    /\ Me(1).pc = "idle" /\ mode = "exe_dir"
    /\ Me(1).trace = <<"get", "conf", "com", "stop", "ext_clear", "ensure_info", "start">>
    /\ comlog.by = "get" /\ comlog.running /\ comlog.changed
    /\ IsRunning(Me(1).inst)

\* C37: between calls, the last-applied peer an instance records
\* (_peer_ip, _peer_port) is the peer written in its COM.JDG
C37_CachedPeerIsCom ==
    (\A t \in Threads : Me(t).pc = "idle") =>
      \A i \in 1..nInst :
        fcom[inst[i].key] # NoFile => inst[i].peer = fcom[inst[i].key]

\* C38: the last command a wipe, alta or currency-format workflow sent went
\* to an equipment that repo.equipos held at that moment, at the ip and
\* puerto repo.equipos held for it
C38_SentToRepoEquipment ==
    flota.to.eq # 0 => flota.to.cur # 0 /\ flota.to.addr = flota.to.cur

\* the device the frame addresses: the three bytes after STX
Device(frame) == SubSeq(frame, 2, 4)
\* C39: for the same command and data, with the default device identifier,
\* the two frame builders give the same bytes, the body starting with "C01",
\* and the ping frame of the Direct-TCP client addresses the same device as
\* the frames of its command builders
C39_SameFrames ==
    fn.op = "frame" =>
      /\ fn.out = fn.out2
      /\ Device(fn.out) = <<67, 48, 49>>
      /\ Device(fn.out3) = Device(fn.out2)

====
